---- MODULE Spec2Model ----
(***************************************************************************)
(* A model of clog: semantic-version release management over a git         *)
(* repository.  The repository (object database, branch reference, HEAD,   *)
(* index, working directory) is the state; the operations are the user's   *)
(* commits and edits, release creation (make_bump_commit), and rollback    *)
(* (remove_last_release_commit).                                           *)
(***************************************************************************)
EXTENDS Integers, Sequences, FiniteSets, TLC

\* ------------------------------------------------------------------ bounds
\* Largest number of commit objects the object database may hold.
MaxObjects == 5
\* Largest number a version component is formatted from / parsed to.
MaxNum == 11

\* --------------------------------------------------------------- Option<T>
\* Rust's Option: None is the empty sequence, Some(x) a one-element sequence.
None == <<>>
Some(x) == <<x>>
IsSome(o) == Len(o) = 1
Unwrap(o) == o[1]

\* ------------------------------------------------------------- SemVerBump

\* enum SemVerBump { None, Patch, Minor, Major } with its derived Ord.
SemVerBump == {"None", "Patch", "Minor", "Major"}
BumpRank(b) == CASE b = "None" -> 0 [] b = "Patch" -> 1 [] b = "Minor" -> 2 [] b = "Major" -> 3

\* Variant: the smaller of two categories is kept.
BumpMin(a, b) == IF BumpRank(b) <= BumpRank(a) THEN b ELSE a

\* std::cmp::max on SemVerBump.
BumpMax(a, b) == IF BumpRank(b) >= BumpRank(a) THEN b ELSE a

\* ------------------------------------------------------------------ SemVer
\* prerelease and build_meta are Option<String>; a string of dot-separated
\* identifiers is the sequence of its identifiers.
SemVerNew(major, minor, patch, prerelease, build_meta) ==
  [major |-> major, minor |-> minor, patch |-> patch,
   prerelease |-> prerelease, build_meta |-> build_meta]

version_0_1_0 == SemVerNew(0, 1, 0, None, None)
\* Variant: the first stable version is 1.1.0.
version_1_1_0 == SemVerNew(1, 1, 0, None, None)

version_1_0_0 == SemVerNew(1, 0, 0, None, None)

\* Variant: a Major bump of a pre-stable version is not demoted to Minor.
bump_undemoted(v, b) ==
  CASE b = "Major" -> SemVerNew(v.major + 1, 0, 0, None, None)
    [] b = "Minor" -> SemVerNew(v.major, v.minor + 1, 0, None, None)
    [] b = "Patch" -> SemVerNew(v.major, v.minor, v.patch + 1, None, None)
    [] OTHER -> v

\* Variant: a None bump rebuilds the version from its numbers.
bump_rebuilt(v, b) ==
  LET eff == IF v.major = 0 /\ b = "Major" THEN "Minor" ELSE b
  IN CASE eff = "Major" -> SemVerNew(v.major + 1, 0, 0, None, None)
       [] eff = "Minor" -> SemVerNew(v.major, v.minor + 1, 0, None, None)
       [] eff = "Patch" -> SemVerNew(v.major, v.minor, v.patch + 1, None, None)
       [] OTHER -> SemVerNew(v.major, v.minor, v.patch, None, None)

\* Variant: a Minor bump keeps the patch number.
bump_keeps_patch(v, b) ==
  LET eff == IF v.major = 0 /\ b = "Major" THEN "Minor" ELSE b
  IN CASE eff = "Major" -> SemVerNew(v.major + 1, 0, 0, None, None)
       [] eff = "Minor" -> SemVerNew(v.major, v.minor + 1, v.patch, None, None)
       [] eff = "Patch" -> SemVerNew(v.major, v.minor, v.patch + 1, None, None)
       [] OTHER -> v

\* Variant: a Patch bump leaves the patch number as it is.
bump_stuck(v, b) ==
  LET eff == IF v.major = 0 /\ b = "Major" THEN "Minor" ELSE b
  IN CASE eff = "Major" -> SemVerNew(v.major + 1, 0, 0, None, None)
       [] eff = "Minor" -> SemVerNew(v.major, v.minor + 1, 0, None, None)
       [] eff = "Patch" -> SemVerNew(v.major, v.minor, v.patch, None, None)
       [] OTHER -> v

\* SemVer::bump
bump(v, b) ==
  LET eff == IF v.major = 0 /\ b = "Major" THEN "Minor" ELSE b
  IN CASE eff = "Major" -> SemVerNew(v.major + 1, 0, 0, None, None)
       [] eff = "Minor" -> SemVerNew(v.major, v.minor + 1, 0, None, None)
       [] eff = "Patch" -> SemVerNew(v.major, v.minor, v.patch + 1, None, None)
       [] OTHER -> v

\* Variant: equality of all five fields.
SemVerEq_all_fields(a, b) == a = b

\* impl PartialEq for SemVer: build metadata is ignored.
SemVerEq(a, b) ==
  /\ a.major = b.major
  /\ a.minor = b.minor
  /\ a.patch = b.patch
  /\ a.prerelease = b.prerelease

\* Ordering of two numbers, as Ordering::{Less, Equal, Greater}.
NumCmp(a, b) == IF a < b THEN "Less" ELSE IF a > b THEN "Greater" ELSE "Equal"

\* The decimal numerals the model formats and parses.
Numerals == {ToString(n) : n \in 0..MaxNum}
\* Identifiers of digits only that exceed u64::MAX, 2^64 and 10^20, in
\* numeric order: SEMVER_STR admits them, str::parse::<u64>() does not.
Overflowing == <<"18446744073709551616", "100000000000000000000">>
\* A numeral written with a leading zero: SEMVER_STR admits it in build
\* metadata only, str::parse::<u64>() reads it as 1.
ZERO_PADDED == "01"
\* str::parse::<u64>() on a numeral (Ok), anything else is Err.
IsNumeric(s) == s \in Numerals \/ s = ZERO_PADDED
NumVal(s) == IF s = ZERO_PADDED THEN 1 ELSE CHOOSE n \in 0..MaxNum : ToString(n) = s

\* Byte order (str::cmp) of the identifiers that do not parse as u64.
AlphaIds == <<"alpha", "beta", "rc">>
ByteOrder == <<Overflowing[2], Overflowing[1]>> \o AlphaIds
AlphaRank(s) == CHOOSE i \in 1..Len(ByteOrder) : ByteOrder[i] = s

\* compare_prerelease: identifier by identifier, zip_longest.
RECURSIVE compare_prerelease(_, _)
compare_prerelease(a, b) ==
  IF a = <<>> /\ b = <<>> THEN "Equal"
  ELSE IF a = <<>> THEN "Less"
  ELSE IF b = <<>> THEN "Greater"
  ELSE LET x == Head(a)
           y == Head(b)
           c == CASE IsNumeric(x) /\ IsNumeric(y) -> NumCmp(NumVal(x), NumVal(y))
                  [] IsNumeric(x) /\ ~IsNumeric(y) -> "Less"
                  [] ~IsNumeric(x) /\ IsNumeric(y) -> "Greater"
                  [] OTHER -> NumCmp(AlphaRank(x), AlphaRank(y))
       IN IF c = "Equal" THEN compare_prerelease(Tail(a), Tail(b)) ELSE c

\* impl Ord for SemVer
SemVerCmp(a, b) ==
  IF NumCmp(a.major, b.major) # "Equal" THEN NumCmp(a.major, b.major)
  ELSE IF NumCmp(a.minor, b.minor) # "Equal" THEN NumCmp(a.minor, b.minor)
  ELSE IF NumCmp(a.patch, b.patch) # "Equal" THEN NumCmp(a.patch, b.patch)
  ELSE CASE ~IsSome(a.prerelease) /\ ~IsSome(b.prerelease) -> "Equal"
         [] ~IsSome(a.prerelease) /\ IsSome(b.prerelease) -> "Greater"
         [] IsSome(a.prerelease) /\ ~IsSome(b.prerelease) -> "Less"
         [] OTHER -> compare_prerelease(Unwrap(a.prerelease), Unwrap(b.prerelease))

\* impl Display for SemVer: the text as a sequence of tokens.
RECURSIVE JoinDots(_)
JoinDots(ids) ==
  IF ids = <<>> THEN <<>>
  ELSE IF Len(ids) = 1 THEN <<ids[1]>>
  ELSE <<ids[1], ".">> \o JoinDots(Tail(ids))

\* Variant: build metadata is not written.
SemVerToString_core(v) ==
  <<ToString(v.major), ".", ToString(v.minor), ".", ToString(v.patch)>>
  \o (IF IsSome(v.prerelease) THEN <<"-">> \o JoinDots(Unwrap(v.prerelease)) ELSE <<>>)

SemVerToString(v) ==
  <<ToString(v.major), ".", ToString(v.minor), ".", ToString(v.patch)>>
  \o (IF IsSome(v.prerelease) THEN <<"-">> \o JoinDots(Unwrap(v.prerelease)) ELSE <<>>)
  \o (IF IsSome(v.build_meta) THEN <<"+">> \o JoinDots(Unwrap(v.build_meta)) ELSE <<>>)

\* Splitting dot-separated identifiers: the inverse of JoinDots, None when
\* the tokens are not identifier (. identifier)*.
RECURSIVE SplitDots(_, _)
SplitDots(toks, ok) ==
  IF toks = <<>> \/ Head(toks) \notin ok THEN None
  ELSE IF Len(toks) = 1 THEN Some(<<toks[1]>>)
  ELSE IF toks[2] # "." THEN None
  ELSE LET rest == SplitDots(SubSeq(toks, 3, Len(toks)), ok)
       IN IF IsSome(rest) THEN Some(<<toks[1]>> \o Unwrap(rest)) ELSE None

\* Identifiers the SEMVER_STR grammar admits in a prerelease / in build metadata.
PrereleaseIds == Numerals \cup {ByteOrder[i] : i \in 1..Len(ByteOrder)}
BuildIds == PrereleaseIds \cup {"linux", "build", ZERO_PADDED}

\* Index of the first occurrence of token t in toks, 0 when absent.
IndexOf(toks, t) ==
  IF \E i \in 1..Len(toks) : toks[i] = t
  THEN CHOOSE i \in 1..Len(toks) : toks[i] = t /\ \A j \in 1..(i - 1) : toks[j] # t
  ELSE 0

\* SemVer::parse: Some(version) when the text matches SEMVER_STR, else None (Err).
SemVerParse(toks) ==
  LET plus == IndexOf(toks, "+")
      core == IF plus = 0 THEN toks ELSE SubSeq(toks, 1, plus - 1)
      build == IF plus = 0 THEN None
               ELSE SplitDots(SubSeq(toks, plus + 1, Len(toks)), BuildIds)
      pre == IF Len(core) > 5 /\ core[6] = "-"
             THEN SplitDots(SubSeq(core, 7, Len(core)), PrereleaseIds)
             ELSE None
  IN IF /\ Len(core) >= 5
        /\ core[1] \in Numerals /\ core[2] = "." /\ core[3] \in Numerals
        /\ core[4] = "." /\ core[5] \in Numerals
        /\ (Len(core) > 5 => IsSome(pre))
        /\ (plus # 0 => IsSome(build))
     THEN Some(SemVerNew(NumVal(core[1]), NumVal(core[3]), NumVal(core[5]),
                         IF IsSome(pre) THEN Some(Unwrap(pre)) ELSE None,
                         IF IsSome(build) THEN Some(Unwrap(build)) ELSE None))
     ELSE None

\* ---------------------------------------------------------------- messages
\* A commit message is a sequence of lines, a line a sequence of tokens.
\* "sp" is a blank; the release trailer is one token.
CLOG_TRAILER == "Bumped-by: clog"

\* The messages of the test commit cases (test_support PATCH, MINOR, MAJOR, NONE).
PATCH == [bump |-> "Patch", msg |-> << <<"fix", ":", "sp", "1">> >>]
MINOR == [bump |-> "Minor", msg |-> << <<"feat", ":", "sp", "1">> >>]
MAJOR == [bump |-> "Major", msg |-> << <<"feat", "!", ":", "sp", "1">> >>]
NONE == [bump |-> "None", msg |-> << <<"random">> >>]
CommitCases == {PATCH, MINOR, MAJOR, NONE}

InitialCommitMessage == << <<"Initial", "sp", "commit">> >>

\* str::trim_start on a line.
RECURSIVE trim_start(_)
trim_start(line) ==
  IF line # <<>> /\ Head(line) = "sp" THEN trim_start(Tail(line)) ELSE line

\* str::trim on a whole message, as far as the start of the text goes: leading
\* blank lines and leading blanks are dropped.
RECURSIVE trim(_)
trim(message) ==
  IF message = <<>> THEN <<>>
  ELSE IF trim_start(Head(message)) = <<>> THEN trim(Tail(message))
  ELSE <<trim_start(Head(message))>> \o Tail(message)

\* The text up to the first line break.
FirstLine(message) == IF message = <<>> THEN <<>> ELSE Head(message)

\* Variant: ^ anchors at the start of every line.
is_match_any_line(r, message) ==
  \E n \in 1..Len(message) :
     LET l == message[n]
     IN CASE r = "^.*!:" -> \E i \in 1..(Len(l) - 1) : l[i] = "!" /\ l[i + 1] = ":"
          [] r = "^feat:" -> Len(l) >= 2 /\ l[1] = "feat" /\ l[2] = ":"
          [] r = "^fix:" -> Len(l) >= 2 /\ l[1] = "fix" /\ l[2] = ":"

\* Regex::is_match for the default patterns.  ^ anchors at the start of the
\* text and . does not match a line break, so only the first line can match.
is_match(r, message) ==
  LET l == FirstLine(message)
  IN CASE r = "^.*!:" -> \E i \in 1..(Len(l) - 1) : l[i] = "!" /\ l[i + 1] = ":"
       [] r = "^feat:" -> Len(l) >= 2 /\ l[1] = "feat" /\ l[2] = ":"
       [] r = "^fix:" -> Len(l) >= 2 /\ l[1] = "fix" /\ l[2] = ":"

DEFAULT_PATTERNS == [major |-> {"^.*!:"}, minor |-> {"^feat:"}, patch |-> {"^fix:"}]

\* lib.rs parse_commit_message
parse_commit_message(message) ==
  LET m == trim(message)
  IN IF \E r \in DEFAULT_PATTERNS.major : is_match(r, m) THEN "Major"
     ELSE IF \E r \in DEFAULT_PATTERNS.minor : is_match(r, m) THEN "Minor"
     ELSE IF \E r \in DEFAULT_PATTERNS.patch : is_match(r, m) THEN "Patch"
     ELSE "None"

\* lib.rs is_clog_bump: some line, trimmed at the start, starts with the trailer.
is_clog_bump(message) ==
  \E i \in 1..Len(message) :
     LET l == trim_start(message[i]) IN l # <<>> /\ l[1] = CLOG_TRAILER

\* Variant: the trailer is looked for on the first line only.
parse_commit_kind_first_line(message) ==
  IF \E j \in 1..Len(FirstLine(message)) : FirstLine(message)[j] = CLOG_TRAILER
  THEN "ClogBump" ELSE "Normal"

\* git.rs CommitWrapper::parse_commit_kind: the trailer occurs anywhere.
parse_commit_kind(message) ==
  IF \E i \in 1..Len(message) : \E j \in 1..Len(message[i]) : message[i][j] = CLOG_TRAILER
  THEN "ClogBump" ELSE "Normal"

\* Variant: the two versions change places.
make_clog_commit_message_swapped(from, to) ==
  << <<"chore", ":", "sp", "bump", "sp", "version", "sp">> \o SemVerToString(to)
       \o <<"sp", "->", "sp">> \o SemVerToString(from),
     <<>>,
     <<CLOG_TRAILER>> >>

\* git.rs make_clog_commit_message
make_clog_commit_message(from, to) ==
  << <<"chore", ":", "sp", "bump", "sp", "version", "sp">> \o SemVerToString(from)
       \o <<"sp", "->", "sp">> \o SemVerToString(to),
     <<>>,
     <<CLOG_TRAILER>> >>

\* Variant: the first line, whether or not a pattern matches it.
get_changelog_message_any(message) == Some(FirstLine(message))

\* changelog.rs get_changelog_message: the first line when a pattern matches it.
get_changelog_message(message) ==
  LET l == FirstLine(message)
  IN IF \E r \in DEFAULT_PATTERNS.major \cup DEFAULT_PATTERNS.minor \cup DEFAULT_PATTERNS.patch :
          is_match(r, <<l>>)
     THEN Some(l) ELSE None

\* -------------------------------------------------------------- repository
VARIABLES
  odb,      \* object database: the commits, a commit's id is its index
  branch,   \* target of refs/heads/main, 0 while the branch is unborn
  HEAD,     \* [attached |-> TRUE] (symbolic, to the branch) or detached at oid
  index,    \* the staging area, a tree
  workdir,  \* the files of the working directory
  rb,       \* position of a running rollback
  last      \* the operation performed last and its outcome

vars == <<odb, branch, HEAD, index, workdir, rb, last>>

\* The manifest (pyproject.toml): the text of its version field and the rest.
Manifest(version, rest) == [version |-> version, rest |-> rest]

\* A tree: the manifest and the changelog (Option each).
Tree(manifest, changelog) == [manifest |-> manifest, changelog |-> changelog]
EmptyTree == Tree(None, None)

\* refs/heads/main
BRANCH_REF == "refs/heads/main"
\* Config::default name: the fallback identity.
CONFIG_NAME == "clog-bot"
\* test_support: the identity of the user's commits.
TEST_USER == "Test User"

\* No rollback is running.  A running one holds the window's commits oldest
\* first, those the replay loop has yet to visit, and the name HEAD had.
Idle == [pc |-> "idle", commits |-> <<>>, iter |-> <<>>, branch_ref |-> ""]

\* lib.rs get_head: repo.head().ok().and_then(|h| h.target())
get_head == IF HEAD.attached THEN branch ELSE HEAD.oid

\* Variant: every repository counts as having commits.
repo_has_commits_any == TRUE

\* lib.rs repo_has_commits
repo_has_commits == get_head # 0

HeadTree == IF get_head = 0 THEN EmptyTree ELSE odb[get_head].tree

\* Variant: untracked files are not looked at.
repo_is_clean_tracked ==
  /\ index = HeadTree
  /\ workdir.manifest = index.manifest
  /\ workdir.changelog = index.changelog

\* lib.rs repo_is_clean: no status entry, untracked files included.
repo_is_clean ==
  /\ index = HeadTree
  /\ workdir.manifest = index.manifest
  /\ workdir.changelog = index.changelog
  /\ ~workdir.untracked

\* git.rs is_repo_ready
is_repo_ready == repo_has_commits /\ repo_is_clean

\* Commits reachable from c (c included); none from 0.
RECURSIVE Ancestors(_)
Ancestors(c) ==
  IF c = 0 THEN {}
  ELSE {c} \cup UNION {Ancestors(odb[c].parents[i]) : i \in 1..Len(odb[c].parents)}

SetMax(S) == CHOOSE x \in S : \A y \in S : y <= x

RECURSIVE Descending(_)
Descending(S) ==
  IF S = {} THEN <<>> ELSE <<SetMax(S)>> \o Descending(S \ {SetMax(S)})

\* The commits on the first-parent line of c (c included); none from 0.
RECURSIVE FirstParents(_)
FirstParents(c) ==
  IF c = 0 THEN {}
  ELSE {c} \cup (IF odb[c].parents = <<>> THEN {} ELSE FirstParents(odb[c].parents[1]))

\* Variant: the walk follows first parents only.
RevwalkFirstParent(push, hide) == Descending(FirstParents(push) \ Ancestors(hide))

\* Variant: nothing is hidden from the walk.
RevwalkAll(push, hide) == Descending(Ancestors(push))

\* A revwalk with Sort::TOPOLOGICAL: what is reachable from push and not from
\* hide, every commit before its ancestors (a child's id exceeds its parents').
Revwalk(push, hide) == Descending(Ancestors(push) \ Ancestors(hide))

\* repo.commit(Some("HEAD"), ...): the new object and the reference HEAD names.
NewCommit(tree, parents, message, author, committer) ==
  [tree |-> tree, parents |-> parents, message |-> message,
   author |-> author, committer |-> committer]

\* PyProject::parse_pyproject on a manifest.
parse_version_file(manifest) == SemVerParse(manifest.version)

\* git.rs CommitWrapper::parse_commit, tree.get_path(..).unwrap(): the call
\* panics on a snapshot that lacks the version file.
parse_commit_panics(oid) == ~IsSome(odb[oid].tree.manifest)

\* git.rs CommitWrapper::parse_commit on a snapshot that holds the version
\* file: Some(item), or None for the Err (text that is not UTF-8 or does not
\* parse) that GitHistory::next filters out.
parse_commit(oid) ==
  LET c == odb[oid]
      version == parse_version_file(Unwrap(c.tree.manifest))
  IN IF IsSome(version)
     THEN Some([message |-> c.message, version |-> Unwrap(version), id |-> oid,
                kind |-> parse_commit_kind(c.message)])
     ELSE None

RECURSIVE FilterMapParse(_)
FilterMapParse(oids) ==
  IF oids = <<>> THEN <<>>
  ELSE parse_commit(Head(oids)) \o FilterMapParse(Tail(oids))

\* git.rs GitHistory: the items of the walk from HEAD, newest first.
GitHistory == FilterMapParse(Revwalk(get_head, 0))

\* Collecting the whole of GitHistory panics when parse_commit does on a
\* commit of the walk.
GitHistory_panics ==
  \E i \in 1..Len(Revwalk(get_head, 0)) : parse_commit_panics(Revwalk(get_head, 0)[i])

\* ------------------------------------------------------- release planning
\* The unreleased window: the longest prefix of the history whose items
\* report the version of the first item.
RECURSIVE TakeWhileVersion(_, _)
TakeWhileVersion(history, v) ==
  IF history = <<>> \/ ~SemVerEq(Head(history).version, v) THEN <<>>
  ELSE <<Head(history)>> \o TakeWhileVersion(Tail(history), v)

iterate_to_last_version(history) ==
  IF history = <<>> THEN <<>> ELSE TakeWhileVersion(history, history[1].version)

\* The largest bump category among the messages of a sequence of items.
RECURSIVE MaxBump(_)
MaxBump(items) ==
  IF items = <<>> THEN "None"
  ELSE BumpMax(parse_commit_message(Head(items).message), MaxBump(Tail(items)))

\* The planner's next version: None when the window is empty or warrants no
\* bump, else the window's version bumped by the window's largest category.
get_next_version(history) ==
  LET window == iterate_to_last_version(history)
  IN IF window = <<>> \/ MaxBump(window) = "None" THEN None
     ELSE Some(bump(window[1].version, MaxBump(window)))

\* Rollback eligibility: the oldest item of the window is a release marker.
is_last_version_bump_clog(history) ==
  LET window == iterate_to_last_version(history)
  IN window # <<>> /\ window[Len(window)].kind = "ClogBump"

\* Results of the release-boundary search: Some(oid), None, or an error.
ResSome(oid) == [kind |-> "Some", oid |-> oid]
ResNone == [kind |-> "None", oid |-> 0]
ResErr == [kind |-> "Err", oid |-> 0]

\* Variant: every change of the version file marks a release.
changed_version_is_older_any(changed_version, current_version) == TRUE

\* lib.rs Project::get_latest_release, `changed_version < current_version`:
\* the version of the parent is below the project's.
changed_version_is_older(changed_version, current_version) ==
  SemVerCmp(changed_version, current_version) = "Less"

\* lib.rs Project::get_latest_release, the loop over the revwalk: the newest
\* commit whose manifest blob differs from its first parent's and whose
\* parent's version is below the project's current version.
RECURSIVE LatestReleaseLoop(_, _)
LatestReleaseLoop(oids, current_version) ==
  IF oids = <<>> THEN ResErr
  ELSE LET oid == Head(oids)
           tree == odb[oid].tree
       IN IF odb[oid].parents = <<>>
          THEN (IF IsSome(tree.manifest) THEN ResSome(oid) ELSE ResNone)
          ELSE LET parent_tree == odb[odb[oid].parents[1]].tree
                   changed == tree.manifest # parent_tree.manifest
                   changed_version == IF IsSome(parent_tree.manifest)
                                      THEN parse_version_file(Unwrap(parent_tree.manifest))
                                      ELSE None
               IN IF ~changed THEN LatestReleaseLoop(Tail(oids), current_version)
                  ELSE IF ~IsSome(changed_version) THEN ResErr
                  ELSE IF changed_version_is_older(Unwrap(changed_version), current_version)
                       THEN ResSome(oid)
                  ELSE LatestReleaseLoop(Tail(oids), current_version)

Project_get_latest_release(current_version) ==
  IF get_head = 0 THEN ResErr
  ELSE LatestReleaseLoop(Revwalk(get_head, 0), current_version)

\* lib.rs get_prev_clog_bump: the newest commit carrying the trailer.
RECURSIVE PrevClogBumpLoop(_)
PrevClogBumpLoop(oids) ==
  IF oids = <<>> THEN ResNone
  ELSE IF is_clog_bump(odb[Head(oids)].message) THEN ResSome(Head(oids))
  ELSE PrevClogBumpLoop(Tail(oids))

get_prev_clog_bump == PrevClogBumpLoop(Revwalk(get_head, 0))

\* lib.rs get_latest_release
get_latest_release(current_version) ==
  LET r == Project_get_latest_release(current_version)
  IN IF r.kind = "None" THEN get_prev_clog_bump ELSE r

\* The largest bump category among the messages of a sequence of commits.
RECURSIVE MaxBumpOids(_)
MaxBumpOids(oids) ==
  IF oids = <<>> THEN "None"
  ELSE BumpMax(parse_commit_message(odb[Head(oids)].message), MaxBumpOids(Tail(oids)))

\* lib.rs calculate_bump: Ok(bump) or Err.
calculate_bump(current_version) ==
  LET since_oid == get_latest_release(current_version)
  IN IF since_oid.kind = "Err" THEN [ok |-> FALSE, bump |-> "None"]
     ELSE [ok |-> TRUE, bump |-> MaxBumpOids(Revwalk(get_head, since_oid.oid))]

\* --------------------------------------------------------------- changelog
BumpVersion(v) == [kind |-> "BumpVersion", version |-> v, msg |-> <<>>]
InitialVersion(v) == [kind |-> "InitialVersion", version |-> v, msg |-> <<>>]
Entry(msg) == [kind |-> "Entry", version |-> version_0_1_0, msg |-> msg]

VersionHeading(v) == <<"#", "sp", "Version", "sp">> \o SemVerToString(v)

\* changelog.rs render::render_changelog: the lines of the rendered text, each
\* ended by a line break.
RECURSIVE render_changelog(_)
render_changelog(entries) ==
  IF entries = <<>> THEN <<>>
  ELSE LET e == Head(entries)
           lines == CASE e.kind = "BumpVersion" -> <<VersionHeading(e.version)>>
                      [] e.kind = "InitialVersion" ->
                           <<VersionHeading(e.version), <<"Initial", "sp", "Commit">> >>
                      [] OTHER -> e.msg
       IN lines \o render_changelog(Tail(entries))

\* Variant: the new block is put after the original.
append_render_changelog(entries, original) == original \o render_changelog(entries)

\* changelog.rs render::prepend_render_changelog
prepend_render_changelog(entries, original) == render_changelog(entries) \o original

\* changelog.rs find_first_version_of_project: the least version of the history.
RECURSIVE MinVersion(_)
MinVersion(history) ==
  IF Len(history) = 1 THEN history[1].version
  ELSE LET m == MinVersion(Tail(history))
       IN IF SemVerCmp(m, history[1].version) = "Less" THEN m ELSE history[1].version

find_first_version_of_project(history) ==
  IF history = <<>> THEN None ELSE Some(MinVersion(history))

\* changelog.rs get_all_changelog_entries, the loop over the history.
RECURSIVE AllEntriesLoop(_, _)
AllEntriesLoop(history, next_version) ==
  IF history = <<>> THEN <<>>
  ELSE LET commit == Head(history)
           heading == IF ~SemVerEq(commit.version, next_version)
                      THEN <<BumpVersion(next_version)>> ELSE <<>>
           m == get_changelog_message(commit.message)
           entry == IF IsSome(m) THEN <<Entry(<<Unwrap(m)>>)>> ELSE <<>>
       IN heading \o entry \o AllEntriesLoop(Tail(history), commit.version)

\* Variant: without a next version the initial version is still listed.
get_all_changelog_entries_initial(history) ==
  LET next == get_next_version(history)
      first == find_first_version_of_project(history)
  IN (IF ~IsSome(next) THEN <<>> ELSE AllEntriesLoop(history, Unwrap(next)))
     \o (IF IsSome(first) THEN <<InitialVersion(Unwrap(first))>> ELSE <<>>)

get_all_changelog_entries(history) ==
  LET next == get_next_version(history)
      first == find_first_version_of_project(history)
  IN IF ~IsSome(next) THEN <<>>
     ELSE AllEntriesLoop(history, Unwrap(next))
          \o (IF IsSome(first) THEN <<InitialVersion(Unwrap(first))>> ELSE <<>>)

\* Entry(c.message()) for each item.
RECURSIVE MessageEntries(_)
MessageEntries(items) ==
  IF items = <<>> THEN <<>>
  ELSE <<Entry(Head(items).message)>> \o MessageEntries(Tail(items))

\* changelog.rs get_newest_changelog_items
get_newest_changelog_items(history) ==
  LET next == get_next_version(history)
  IN IF ~IsSome(next) THEN <<>>
     ELSE <<BumpVersion(Unwrap(next))>> \o MessageEntries(iterate_to_last_version(history))

\* changelog.rs generate_entire_changelog: the file is created and written.
generate_entire_changelog(history) ==
  Some(render_changelog(get_all_changelog_entries(history)))

\* changelog.rs append_changelog: nothing is written when there is no entry.
append_changelog(history, original) ==
  LET entries == get_newest_changelog_items(history)
  IN IF entries = <<>> THEN Some(original)
     ELSE Some(prepend_render_changelog(entries, original))

\* changelog.rs prepare_changelog: the changelog file afterwards, given the
\* file before (None when it does not exist).
prepare_changelog(history, file) ==
  IF ~IsSome(file) THEN generate_entire_changelog(history)
  ELSE append_changelog(history, Unwrap(file))

\* ------------------------------------------------------------------ actions
Outcome(op, outcome) == [op |-> op, outcome |-> outcome]

Attached == [attached |-> TRUE, oid |-> 0]
Detached(oid) == [attached |-> FALSE, oid |-> oid]

\* The state after Repository::init: no commit, HEAD on the unborn branch.
Init ==
  /\ odb = <<>>
  /\ branch = 0
  /\ HEAD = Attached
  /\ index = EmptyTree
  /\ workdir = [manifest |-> None, changelog |-> None, untracked |-> FALSE]
  /\ rb = Idle
  /\ last = Outcome("user", "Ok")

\* repo.commit(Some("HEAD"), ...) of a new object: the branch moves when HEAD
\* is attached, HEAD itself when it is detached.
CommitOnHead(commit) ==
  /\ odb' = Append(odb, commit)
  /\ IF HEAD.attached
     THEN branch' = Len(odb) + 1 /\ HEAD' = HEAD
     ELSE HEAD' = Detached(Len(odb) + 1) /\ branch' = branch

\* test_support empty_commit: the parents of the user's commit, the tip when
\* there is one.
HeadParents == IF get_head = 0 THEN <<>> ELSE <<get_head>>

\* Variant: the release commit is created without a parent.
parent_commit_none == <<>>

\* lib.rs make_bump_commit, git.rs create_clog_commit: the parents of the
\* release commit, the commit HEAD resolves to when there is one.
parent_commit == IF get_head = 0 THEN <<>> ELSE <<get_head>>

\* test_support init_python_repo / pyproject_init_commit: the manifest is
\* written, staged and committed as the root commit.
pyproject_init_commit(version) ==
  /\ rb.pc = "idle"
  /\ ~repo_has_commits
  /\ Len(odb) < MaxObjects
  /\ LET manifest == Some(Manifest(SemVerToString(version), 0))
     IN /\ workdir' = [workdir EXCEPT !.manifest = manifest]
        /\ index' = [index EXCEPT !.manifest = manifest]
        /\ CommitOnHead(NewCommit([index EXCEPT !.manifest = manifest], <<>>,
                                  InitialCommitMessage, TEST_USER, TEST_USER))
  /\ rb' = rb
  /\ last' = Outcome("user", "Ok")

\* test_support empty_commit: the index is committed on HEAD as it is.  The
\* user commits on the branch, when every change of the working directory is
\* staged.
empty_commit(case) ==
  /\ rb.pc = "idle"
  /\ HEAD.attached
  /\ repo_has_commits
  /\ workdir = [manifest |-> index.manifest, changelog |-> index.changelog, untracked |-> FALSE]
  /\ Len(odb) < MaxObjects
  /\ CommitOnHead(NewCommit(index, HeadParents, case.msg, TEST_USER, TEST_USER))
  /\ UNCHANGED <<index, workdir, rb>>
  /\ last' = Outcome("user", "Ok")

\* The user's edits between runs, made on the branch while commits can still
\* follow: an untracked file, an unstaged change of the manifest's other
\* content, or a reset to HEAD.
EditKinds == {"untracked", "modify", "restore"}
OtherRest(m) == Manifest(m.version, 1 - m.rest)
UserEdit(kind) ==
  /\ rb.pc = "idle"
  /\ HEAD.attached
  /\ kind = "restore" \/ Len(odb) < MaxObjects
  /\ CASE kind = "untracked" ->
            /\ repo_is_clean \/ ~repo_has_commits
            /\ ~workdir.untracked
            /\ workdir' = [workdir EXCEPT !.untracked = TRUE]
            /\ index' = index
       [] kind = "modify" ->
            /\ repo_is_clean
            /\ IsSome(workdir.manifest)
            /\ Unwrap(workdir.manifest).rest = 0
            /\ workdir' = [workdir EXCEPT !.manifest = Some(OtherRest(Unwrap(workdir.manifest)))]
            /\ index' = index
       [] kind = "restore" ->
            /\ ~repo_is_clean
            /\ workdir' = [manifest |-> HeadTree.manifest, changelog |-> HeadTree.changelog,
                           untracked |-> FALSE]
            /\ index' = HeadTree
  /\ UNCHANGED <<odb, branch, HEAD, rb>>
  /\ last' = Outcome("user", "Ok")

\* Where a call to the backend or the file system may fail in a release
\* creation: nowhere, or at the manifest write.
BackendFailures == {"none", "write"}

\* lib.rs make_bump_commit behind the checks of main: the changelog is
\* prepared, the bump calculated, and unless it is None the manifest is
\* written, both files are staged and the release commit is created.
make_bump_commit ==
  /\ rb.pc = "idle"
  /\ IF ~repo_has_commits
     THEN /\ last' = Outcome("release", "NoCommits")
          /\ UNCHANGED <<odb, branch, HEAD, index, workdir, rb>>
     ELSE IF ~repo_is_clean
     THEN /\ last' = Outcome("release", "NotClean")
          /\ UNCHANGED <<odb, branch, HEAD, index, workdir, rb>>
     ELSE IF ~IsSome(workdir.manifest) \/ ~IsSome(parse_version_file(Unwrap(workdir.manifest)))
     THEN /\ last' = Outcome("release", "NoProject")
          /\ UNCHANGED <<odb, branch, HEAD, index, workdir, rb>>
     ELSE LET version == Unwrap(parse_version_file(Unwrap(workdir.manifest)))
              changelog == prepare_changelog(GitHistory, workdir.changelog)
              b == calculate_bump(version)
              next_version == bump(version, b.bump)
              message == make_clog_commit_message(version, next_version)
              manifest == Some(Manifest(SemVerToString(next_version),
                                        Unwrap(workdir.manifest).rest))
              tree == Tree(manifest, changelog)
          IN IF ~b.ok
             THEN /\ last' = Outcome("release", "Panic")
                  /\ workdir' = [workdir EXCEPT !.changelog = changelog]
                  /\ UNCHANGED <<odb, branch, HEAD, index, rb>>
             ELSE IF b.bump = "None"
             THEN /\ last' = Outcome("release", "NoOp")
                  /\ workdir' = [workdir EXCEPT !.changelog = changelog]
                  /\ UNCHANGED <<odb, branch, HEAD, index, rb>>
             ELSE \E fail \in BackendFailures :
                  CASE fail = "write" ->
                         /\ Len(odb) < MaxObjects
                         /\ last' = Outcome("release", "Err")
                         /\ workdir' = [workdir EXCEPT !.changelog = changelog]
                         /\ UNCHANGED <<odb, branch, HEAD, index, rb>>
                    [] OTHER ->
                         /\ Len(odb) < MaxObjects
                         /\ workdir' = [workdir EXCEPT !.manifest = manifest,
                                                       !.changelog = changelog]
                         /\ index' = tree
                         /\ CommitOnHead(NewCommit(tree, parent_commit, message,
                                                   CONFIG_NAME, CONFIG_NAME))
                         /\ last' = Outcome("release", "Committed")
                         /\ rb' = rb

\* Variant: only a version above 1.0.0 is an error.
set_initial_release_strict(version) ==
  IF SemVerCmp(version_1_0_0, version) = "Less" THEN None ELSE Some(version_1_0_0)

\* python.rs PyProject::set_initial_release: an error when 1.0.0 <= version,
\* else the version becomes 1.0.0.
set_initial_release(version) ==
  IF SemVerCmp(version_1_0_0, version) \in {"Less", "Equal"} THEN None
  ELSE Some(version_1_0_0)

\* lib.rs make_initial_stable_commit behind the checks of main and of
\* initial_release: the manifest is set to 1.0.0, written, staged and
\* committed on HEAD.  The changelog is not touched.
make_initial_stable_commit ==
  /\ rb.pc = "idle"
  /\ IF ~repo_has_commits
     THEN /\ last' = Outcome("promotion", "NoCommits")
          /\ UNCHANGED <<odb, branch, HEAD, index, workdir, rb>>
     ELSE IF ~repo_is_clean
     THEN /\ last' = Outcome("promotion", "NotClean")
          /\ UNCHANGED <<odb, branch, HEAD, index, workdir, rb>>
     ELSE IF ~IsSome(workdir.manifest) \/ ~IsSome(parse_version_file(Unwrap(workdir.manifest)))
     THEN /\ last' = Outcome("promotion", "NoProject")
          /\ UNCHANGED <<odb, branch, HEAD, index, workdir, rb>>
     ELSE LET version == Unwrap(parse_version_file(Unwrap(workdir.manifest)))
              released == set_initial_release(version)
          IN IF ~IsSome(released)
             THEN /\ last' = Outcome("promotion", "AlreadyStable")
                  /\ UNCHANGED <<odb, branch, HEAD, index, workdir, rb>>
             ELSE LET message == make_clog_commit_message(version, version_1_0_0)
                      manifest == Some(Manifest(SemVerToString(Unwrap(released)),
                                                Unwrap(workdir.manifest).rest))
                      tree == [index EXCEPT !.manifest = manifest]
                  IN /\ Len(odb) < MaxObjects
                     /\ workdir' = [workdir EXCEPT !.manifest = manifest]
                     /\ index' = tree
                     /\ CommitOnHead(NewCommit(tree, parent_commit, message,
                                               CONFIG_NAME, CONFIG_NAME))
                     /\ last' = Outcome("promotion", "Committed")
                     /\ rb' = rb

\* git.rs remove_last_release_commit, up to the detach: the eligibility check,
\* the window oldest first, its base, and HEAD detached at the base.  The
\* checkout either resets index and files to the base or leaves them.
RECURSIVE Ids(_)
Ids(items) == IF items = <<>> THEN <<>> ELSE <<Head(items).id>> \o Ids(Tail(items))

RECURSIVE Reverse(_)
Reverse(q) == IF q = <<>> THEN <<>> ELSE Append(Reverse(Tail(q)), Head(q))

\* Variant: the release commit is replayed with the others.
replay_whole(commits) == commits

\* git.rs remove_last_release_commit, `iter.next()` before the loop: the
\* oldest commit, the release commit, is not replayed.
replay_iter(commits) == Tail(commits)

\* Variant: HEAD stays on its branch.
set_head_attached(oid) == HEAD

\* Variant: HEAD is detached at the commit it is on.
set_head_detached_at_tip(oid) == Detached(get_head)

\* git.rs remove_last_release_commit, repo.set_head_detached(base.id())
set_head_detached(oid) == Detached(oid)

remove_last_release_commit ==
  /\ rb.pc = "idle"
  /\ IF get_head = 0
     THEN /\ last' = Outcome("rollback", "Panic")
          /\ UNCHANGED <<odb, branch, HEAD, index, workdir, rb>>
     ELSE IF ~is_last_version_bump_clog(GitHistory)
     THEN /\ last' = Outcome("rollback", "NotAutomatedRelease")
          /\ UNCHANGED <<odb, branch, HEAD, index, workdir, rb>>
     ELSE LET commits == Reverse(Ids(iterate_to_last_version(GitHistory)))
          IN IF odb[commits[1]].parents = <<>>
             THEN /\ last' = Outcome("rollback", "Err")
                  /\ UNCHANGED <<odb, branch, HEAD, index, workdir, rb>>
             ELSE LET base == odb[commits[1]].parents[1]
                  IN /\ Len(odb) + Len(replay_iter(commits)) <= MaxObjects
                     /\ HEAD' = set_head_detached(base)
                     /\ \E reset \in BOOLEAN :
                          IF reset
                          THEN /\ index' = odb[base].tree
                               /\ workdir' = [workdir EXCEPT
                                                !.manifest = odb[base].tree.manifest,
                                                !.changelog = odb[base].tree.changelog]
                          ELSE UNCHANGED <<index, workdir>>
                     /\ rb' = [pc |-> "replaying", commits |-> commits, iter |-> replay_iter(commits),
                               branch_ref |-> IF HEAD.attached THEN BRANCH_REF ELSE "HEAD"]
                     /\ last' = Outcome("rollback", "Detached")
                     /\ UNCHANGED <<odb, branch>>

\* git.rs remove_last_release_commit, one turn of the replay loop: the commit
\* is created anew on HEAD with the original's tree, identities and message.
\* Variant: the replayed commit is signed anew.
replayed_resigned(c, parent) ==
  NewCommit(c.tree, <<parent>>, c.message, CONFIG_NAME, CONFIG_NAME)

\* The commit the loop creates for an original commit c on a parent.
replayed(c, parent) == NewCommit(c.tree, <<parent>>, c.message, c.author, c.committer)

replay_commit ==
  /\ rb.pc = "replaying"
  /\ rb.iter # <<>>
  /\ CommitOnHead(replayed(odb[Head(rb.iter)], get_head))
  /\ rb' = [rb EXCEPT !.iter = Tail(rb.iter)]
  /\ last' = Outcome("rollback", "Replaying")
  /\ UNCHANGED <<index, workdir>>

\* git.rs remove_last_release_commit, a call of the loop returns an error:
\* the function returns it, HEAD stays where the loop left it.
replay_fails ==
  /\ rb.pc = "replaying"
  /\ rb.iter # <<>>
  /\ rb' = Idle
  /\ last' = Outcome("rollback", "Err")
  /\ UNCHANGED <<odb, branch, HEAD, index, workdir>>

\* Variant: the branch is set to the base of the window.
new_head_base == odb[rb.commits[1]].parents[1]

\* git.rs remove_last_release_commit, repo.head()?.target() after the loop
new_head == HEAD.oid

\* git.rs remove_last_release_commit, after the loop: the reference HEAD had is
\* set to the new head and HEAD is set back to it.
set_branch_target ==
  /\ rb.pc = "replaying"
  /\ rb.iter = <<>>
  /\ IF rb.branch_ref = BRANCH_REF
     THEN branch' = new_head /\ HEAD' = Attached
     ELSE UNCHANGED <<branch, HEAD>>
  /\ rb' = Idle
  /\ last' = Outcome("rollback", "Ok")
  /\ UNCHANGED <<odb, index, workdir>>

Next ==
  \/ \E version \in {version_0_1_0, version_1_0_0} : pyproject_init_commit(version)
  \/ \E case \in CommitCases : empty_commit(case)
  \/ \E kind \in EditKinds : UserEdit(kind)
  \/ make_bump_commit
  \/ make_initial_stable_commit
  \/ remove_last_release_commit
  \/ replay_commit
  \/ replay_fails
  \/ set_branch_target

Spec == Init /\ [][Next]_vars

TypeOK ==
  /\ Len(odb) <= MaxObjects
  /\ branch \in 0..Len(odb)
  /\ HEAD.oid \in 0..Len(odb)
  /\ rb.pc \in {"idle", "replaying"}

\* ------------------------------------------------------------- properties
\* The tracked version of a commit: the version its snapshot's manifest holds.
TrackedVersion(oid) == Unwrap(parse_version_file(Unwrap(odb[oid].tree.manifest)))

\* The version the manifest in the working directory holds.
DiskVersion(files) == Unwrap(parse_version_file(Unwrap(files.manifest)))

CategoryOrder == <<"None", "Patch", "Minor", "Major">>
CategoryIndex(b) == CHOOSE i \in 1..4 : CategoryOrder[i] = b
Category(oid) == parse_commit_message(odb[oid].message)

\* The greatest category found among a set of commits, None for no commit.
MaxCategory(S) ==
  IF S = {} THEN "None"
  ELSE CHOOSE b \in SemVerBump :
         /\ \E c \in S : Category(c) = b
         /\ \A c \in S : CategoryIndex(Category(c)) <= CategoryIndex(b)

\* The unreleased window of a tip: the maximal run of commits, going back from
\* tip along first parents, whose tracked version is the tip's.
RECURSIVE SharedVersionRun(_, _)
SharedVersionRun(c, version) ==
  IF ~SemVerEq(TrackedVersion(c), version) THEN {}
  ELSE IF odb[c].parents = <<>> THEN {c}
  ELSE {c} \cup SharedVersionRun(odb[c].parents[1], version)

UnreleasedWindow(tip) == SharedVersionRun(tip, TrackedVersion(tip))

\* A step of release creation that ran to an end, Committed or NoOp.
ReleaseStep == rb.pc = "idle" /\ last'.op = "release"
ReleaseEnded == ReleaseStep /\ last'.outcome \in {"Committed", "NoOp"}

\* What a release creation yields for a version and a category: nothing to
\* release for None, else the bumped version, written to the manifest.
Yields(version, category) ==
  IF category = "None"
  THEN last'.outcome = "NoOp" /\ DiskVersion(workdir') = version
  ELSE last'.outcome = "Committed" /\ DiskVersion(workdir') = bump(version, category)

\* C1: release creation yields no release when no commit of the unreleased
\* window classifies above None, and otherwise yields the window's shared
\* version bumped by the greatest category among the window's commits,
\* Major > Minor > Patch > None.
C1_BumpIsWindowMaximum ==
  [][ReleaseEnded =>
       Yields(TrackedVersion(get_head), MaxCategory(UnreleasedWindow(get_head)))]_vars

\* The newest release commit on the first-parent line of c, 0 when none.
RECURSIVE LatestRelease(_)
LatestRelease(c) ==
  IF parse_commit_kind(odb[c].message) = "ClogBump" THEN c
  ELSE IF odb[c].parents = <<>> THEN 0
  ELSE LatestRelease(odb[c].parents[1])

\* The commits made after the newest release commit.
AfterRelease(tip) == Ancestors(tip) \ Ancestors(LatestRelease(tip))

\* The history is a release commit followed by commits made on top of it,
\* which carry its version.
ReleasedBefore(tip) ==
  /\ LatestRelease(tip) # 0
  /\ \A c \in AfterRelease(tip) :
        SemVerEq(TrackedVersion(c), TrackedVersion(LatestRelease(tip)))

\* C2: once a release commit exists, a later release creation bumps the
\* released version by the greatest category of the commits made after that
\* release commit only, and ends NoOp when none of them classifies above None.
C2_OnlyCommitsAfterRelease ==
  [][(ReleaseEnded /\ ReleasedBefore(get_head)) =>
       Yields(TrackedVersion(LatestRelease(get_head)), MaxCategory(AfterRelease(get_head)))]_vars

\* C2 witness: a second release was committed, and a commit before the first
\* release classifies above every commit made after it.
C2_Witness ==
  /\ last = Outcome("release", "Committed")
  /\ LET before == odb[get_head].parents[1]
         first == LatestRelease(before)
     IN /\ first # 0
        /\ AfterRelease(before) # {}
        /\ \E old \in Ancestors(first) :
              CategoryIndex(Category(old)) > CategoryIndex(MaxCategory(AfterRelease(before)))

\* C3 (as claimed): a release creation that ends NoOp leaves every file and
\* the repository as they were.
C3_NoOpChangesNothing ==
  [][(ReleaseStep /\ last'.outcome = "NoOp") =>
       UNCHANGED <<odb, branch, HEAD, index, workdir>>]_vars

\* A pending change: the index differs from the tip's snapshot, a tracked
\* file differs from the index, or there is an untracked file.
PendingChanges ==
  \/ index # HeadTree
  \/ workdir.manifest # index.manifest
  \/ workdir.changelog # index.changelog
  \/ workdir.untracked

\* C4 (as claimed): release creation started with a pending change fails with
\* NotClean and mutates nothing.
C4_DirtyFailsNotClean ==
  [][(ReleaseStep /\ PendingChanges) =>
       (last'.outcome = "NotClean" /\ UNCHANGED <<odb, branch, HEAD, index, workdir>>)]_vars

\* C4 (amended): on a repository that has a commit, release creation started
\* with a pending change fails with NotClean and mutates nothing.
C4_DirtyWithCommitsFailsNotClean ==
  [][(ReleaseStep /\ PendingChanges /\ get_head # 0) =>
       (last'.outcome = "NotClean" /\ UNCHANGED <<odb, branch, HEAD, index, workdir>>)]_vars

\* C4 witness: a release creation was refused over an untracked file.
C4_Witness ==
  /\ last = Outcome("release", "NotClean")
  /\ workdir.untracked
  /\ get_head # 0

\* The commits reachable from the tip once the step is taken.
AncestorsAfter == (Ancestors(get_head))'

\* C5: a release creation that ends Committed adds one commit whose only
\* parent is the previous tip; HEAD stays on its branch, which now points at
\* the new commit, and all that was reachable stays reachable and unchanged.
C5_OneCommitOnPreviousTip ==
  [][(ReleaseStep /\ last'.outcome = "Committed") =>
       /\ Len(odb') = Len(odb) + 1
       /\ SubSeq(odb', 1, Len(odb)) = odb
       /\ get_head' = Len(odb')
       /\ odb'[get_head'].parents = <<get_head>>
       /\ HEAD'.attached = HEAD.attached
       /\ (HEAD.attached => branch' = get_head')
       /\ AncestorsAfter = Ancestors(get_head) \cup {get_head'}]_vars

\* C5 witness: a release commit sits on the branch, on top of older commits.
C5_Witness ==
  /\ last = Outcome("release", "Committed")
  /\ HEAD.attached
  /\ branch = Len(odb)
  /\ Len(odb[branch].parents) = 1
  /\ Cardinality(Ancestors(branch)) >= 3

\* test_support CLOG_MSG: the {from} and {to} texts a release message names,
\* None when the message does not have the form of a release message.
IsCoreVersion(toks) ==
  /\ Len(toks) = 5
  /\ toks[1] \in Numerals /\ toks[2] = "." /\ toks[3] \in Numerals
  /\ toks[4] = "." /\ toks[5] \in Numerals

CLOG_MSG_captures(message) ==
  IF /\ Len(message) = 3
     /\ Len(message[1]) = 20
     /\ SubSeq(message[1], 1, 7) = <<"chore", ":", "sp", "bump", "sp", "version", "sp">>
     /\ IsCoreVersion(SubSeq(message[1], 8, 12))
     /\ SubSeq(message[1], 13, 15) = <<"sp", "->", "sp">>
     /\ IsCoreVersion(SubSeq(message[1], 16, 20))
     /\ message[2] = <<>>
     /\ message[3] = <<CLOG_TRAILER>>
  THEN Some([from |-> SubSeq(message[1], 8, 12), to |-> SubSeq(message[1], 16, 20)])
  ELSE None

TipVersionAfter == (TrackedVersion(get_head))'
TipCapturesAfter == (CLOG_MSG_captures(odb[get_head].message))'

\* C6: after a Committed release the manifest on disk, the manifest in the
\* new tip's snapshot and the {new} text of the tip's message all hold the
\* planned next version, and {old} is the version the project had before.
C6_VersionWrittenEverywhere ==
  [][(ReleaseStep /\ last'.outcome = "Committed") =>
       LET old == DiskVersion(workdir)
           next == bump(old, calculate_bump(old).bump)
       IN /\ DiskVersion(workdir') = next
          /\ TipVersionAfter = next
          /\ IsSome(TipCapturesAfter)
          /\ SemVerParse(Unwrap(TipCapturesAfter).to) = Some(next)
          /\ SemVerParse(Unwrap(TipCapturesAfter).from) = Some(old)
          /\ old # next]_vars

\* C6 witness: the tip is a release commit whose message names two versions,
\* the newer of which the manifest on disk holds.
C6_Witness ==
  /\ last = Outcome("release", "Committed")
  /\ IsSome(CLOG_MSG_captures(odb[get_head].message))
  /\ SemVerParse(Unwrap(CLOG_MSG_captures(odb[get_head].message)).to)
       = Some(DiskVersion(workdir))
  /\ SemVerParse(Unwrap(CLOG_MSG_captures(odb[get_head].message)).from)
       = Some(TrackedVersion(odb[get_head].parents[1]))

PendingChangesAfter == PendingChanges'

\* C7 (as claimed): after a release creation that ended Committed or NoOp
\* there is no pending change and no untracked file.
C7_CleanAfterRelease ==
  [][ReleaseEnded => ~PendingChangesAfter]_vars

\* C8: right after a Committed release the history, read again, starts with
\* the new tip classified as a release marker, and rollback is eligible.
C8_ReleaseIsMarkerAndEligible ==
  last = Outcome("release", "Committed") =>
    /\ GitHistory # <<>>
    /\ GitHistory[1].id = get_head
    /\ GitHistory[1].kind = "ClogBump"
    /\ is_last_version_bump_clog(GitHistory)

\* C8 witness: a release was committed on a history of three older commits
\* and the window read back holds the release commit alone.
C8_Witness ==
  /\ last = Outcome("release", "Committed")
  /\ Len(GitHistory) >= 4
  /\ Ids(iterate_to_last_version(GitHistory)) = <<get_head>>
  /\ GitHistory[1].kind = "ClogBump"

\* C9 (as claimed): after a successful rollback, rollback is not eligible.
C9_NotEligibleAfterRollback ==
  last = Outcome("rollback", "Ok") => ~is_last_version_bump_clog(GitHistory)

\* The release markers reachable from a commit.
Markers(tip) == {c \in Ancestors(tip) : parse_commit_kind(odb[c].message) = "ClogBump"}

\* The last step of a rollback.
RollbackDone == rb.pc = "replaying" /\ rb'.pc = "idle" /\ last'.outcome = "Ok"

\* C9 (amended): after a successful rollback on a history whose only release
\* marker is the removed release commit, rollback is not eligible.  The last
\* step moves the branch to the commit HEAD is on and adds no commit, so the
\* history read after it is the history read before it.
C9_NotEligibleAfterOnlyRelease ==
  [][(RollbackDone /\ Markers(rb.commits[Len(rb.commits)]) = {rb.commits[1]}) =>
       /\ odb' = odb
       /\ get_head' = get_head
       /\ ~is_last_version_bump_clog(GitHistory)]_vars

\* C9 witness: a rollback succeeded, it replayed a commit, and no release
\* marker is reachable any more although one is in the object database.
C9_Witness ==
  /\ last = Outcome("rollback", "Ok")
  /\ Markers(get_head) = {}
  /\ \E c \in 1..Len(odb) : parse_commit_kind(odb[c].message) = "ClogBump"
  /\ \E c \in 1..Len(odb) : c # get_head /\ odb[c].tree = odb[get_head].tree
                               /\ odb[c].message = odb[get_head].message
                               /\ odb[c].parents # odb[get_head].parents
  /\ ~is_last_version_bump_clog(GitHistory)

\* The first step of a rollback.
RollbackStart == rb.pc = "idle" /\ last'.op = "rollback"

\* C10 (as claimed): a rollback attempted when the oldest commit of the
\* window is not a release marker, or the window is empty, fails with
\* NotAutomatedRelease and leaves HEAD, the branch, the commits and the
\* working directory as they were.
C10_IneligibleFailsUnchanged ==
  [][(RollbackStart /\ ~is_last_version_bump_clog(GitHistory)) =>
       /\ last'.outcome = "NotAutomatedRelease"
       /\ UNCHANGED <<odb, branch, HEAD, index, workdir>>]_vars

\* The commits from tip down to base, base excluded, along first parents,
\* newest first.
RECURSIVE ChainTo(_, _)
ChainTo(tip, base) ==
  IF tip = base \/ tip = 0 THEN <<>>
  ELSE <<tip>> \o ChainTo(IF odb[tip].parents = <<>> THEN 0 ELSE odb[tip].parents[1], base)

\* The base of a rollback: the parent of the oldest commit of its window.
RollbackBase == odb[rb.commits[1]].parents[1]

C12_BranchUntouchedUntilFinalStep ==
  [][(rb'.pc = "replaying" \/ (rb.pc = "replaying" /\ ~RollbackDone)) =>
       /\ branch' = branch
       /\ SubSeq(odb', 1, Len(odb)) = odb
       /\ (rb'.pc = "replaying" /\ rb'.branch_ref = BRANCH_REF =>
             branch' = rb'.commits[Len(rb'.commits)])]_vars

\* C12 witness: a replay has failed; HEAD is detached below the branch, which
\* still reaches the release commit.
C12_Witness ==
  /\ last = Outcome("rollback", "Err")
  /\ ~HEAD.attached
  /\ HEAD.oid \in Ancestors(branch) \ {branch}
  /\ Markers(branch) # {}

\* C13: when a rollback begun on the named branch succeeds, HEAD is attached
\* to that branch again and the branch points at the last replayed commit,
\* or at base when the window held the release commit alone.
C13_AttachedAtLastReplay ==
  [][(RollbackDone /\ rb.branch_ref = BRANCH_REF) =>
       /\ HEAD' = Attached
       /\ odb' = odb
       /\ IF Len(rb.commits) = 1 THEN branch' = RollbackBase
          ELSE /\ branch' = Len(odb)
               /\ odb[Len(odb)].message = odb[rb.commits[Len(rb.commits)]].message
               /\ odb[Len(odb)].tree = odb[rb.commits[Len(rb.commits)]].tree]_vars

\* C13 witness: a rollback of a window holding the release commit alone has
\* ended with HEAD on the branch and the branch on the release's parent.
C13_Witness ==
  /\ last = Outcome("rollback", "Ok")
  /\ HEAD = Attached
  /\ branch < Len(odb)
  /\ parse_commit_kind(odb[Len(odb)].message) = "ClogBump"
  /\ odb[Len(odb)].parents = <<branch>>

\* C14 (as claimed): a rollback started while HEAD is detached, on a history
\* that makes rollback eligible, fails with DetachedHeadUnsupported and moves
\* nothing: HEAD stays, no commit is made, no reference is updated.
C14_DetachedHeadRejected ==
  [][(RollbackStart /\ ~HEAD.attached /\ is_last_version_bump_clog(GitHistory)) =>
       /\ last'.outcome = "DetachedHeadUnsupported"
       /\ UNCHANGED <<odb, branch, HEAD, index, workdir>>]_vars

\* A step of a stable promotion.
PromotionStep == rb.pc = "idle" /\ last'.op = "promotion"

\* The project on disk has a version at or above 1.0.0.
DiskIsStable ==
  /\ IsSome(workdir.manifest)
  /\ IsSome(parse_version_file(Unwrap(workdir.manifest)))
  /\ SemVerCmp(DiskVersion(workdir), SemVerNew(1, 0, 0, None, None)) \in {"Greater", "Equal"}

\* The project on disk has a version below 1.0.0.
DiskIsPreStable ==
  /\ IsSome(workdir.manifest)
  /\ IsSome(parse_version_file(Unwrap(workdir.manifest)))
  /\ SemVerCmp(DiskVersion(workdir), SemVerNew(1, 0, 0, None, None)) = "Less"

TipIsMarkerAfter == (parse_commit_kind(odb[get_head].message) = "ClogBump")'

\* C16: a stable promotion on a clean repository whose project is below
\* 1.0.0 is committed; it sets the manifest to exactly 1.0.0, on disk and in
\* the snapshot, whatever the messages of the history, and adds one release
\* marker commit on the previous tip whose message names 1.0.0 as the new
\* version.
C16_PromotionSetsStableVersion ==
  [][PromotionStep =>
       /\ (DiskIsPreStable /\ is_repo_ready => last'.outcome = "Committed")
       /\ (last'.outcome = "Committed" =>
             /\ DiskIsPreStable
             /\ DiskVersion(workdir') = SemVerNew(1, 0, 0, None, None)
             /\ TipVersionAfter = SemVerNew(1, 0, 0, None, None)
             /\ Len(odb') = Len(odb) + 1
             /\ SubSeq(odb', 1, Len(odb)) = odb
             /\ get_head' = Len(odb')
             /\ odb'[get_head'].parents = <<get_head>>
             /\ TipIsMarkerAfter
             /\ IsSome(TipCapturesAfter)
             /\ Unwrap(TipCapturesAfter).to = <<"1", ".", "0", ".", "0">>
             /\ SemVerParse(Unwrap(TipCapturesAfter).from) = Some(DiskVersion(workdir)))]_vars

\* C16 witness: a promotion was committed on a history whose window warrants
\* a patch bump at most, and the manifest reads 1.0.0.
C16_Witness ==
  /\ last = Outcome("promotion", "Committed")
  /\ workdir.manifest = odb[get_head].tree.manifest
  /\ Unwrap(workdir.manifest).version = <<"1", ".", "0", ".", "0">>
  /\ Len(odb[get_head].parents) = 1
  /\ \A c \in Ancestors(odb[get_head].parents[1]) : Category(c) \in {"None", "Patch"}
  /\ \E c \in Ancestors(odb[get_head].parents[1]) : Category(c) = "Patch"

\* C17 (as claimed): a stable promotion regenerates the changelog, and the
\* snapshot of its commit holds the regenerated changelog.
C17_PromotionRegeneratesChangelog ==
  [][(PromotionStep /\ last'.outcome = "Committed") =>
       /\ IsSome(workdir'.changelog)
       /\ workdir'.changelog # workdir.changelog
       /\ odb'[get_head'].tree.changelog = workdir'.changelog]_vars

\* C18 (as claimed): a release creation that fails leaves the manifest and
\* the changelog on disk, and the index, as they were.
C18_FailedReleaseWritesNothing ==
  [][(ReleaseStep /\ last'.outcome \notin {"Committed", "NoOp"}) =>
       UNCHANGED <<index, workdir>>]_vars

\* q ends with p.
IsSuffix(p, q) == Len(p) <= Len(q) /\ SubSeq(q, Len(q) - Len(p) + 1, Len(q)) = p

\* The release creation got past the checks of the repository and prepared
\* the changelog.
ChangelogPrepared == last'.outcome \in {"Committed", "NoOp", "Err", "Panic"}

\* C19: a release creation that runs with an existing changelog file leaves
\* the previous content as the end of the new content; when a release is
\* pending the new content is a new block, headed by the next version,
\* followed by the previous content unchanged, and that is the changelog a
\* committed release holds.
C19_ChangelogIsPrepended ==
  [][(ReleaseStep /\ IsSome(workdir.changelog)) =>
       /\ IsSome(workdir'.changelog)
       /\ IsSuffix(Unwrap(workdir.changelog), Unwrap(workdir'.changelog))
       /\ (ChangelogPrepared /\ IsSome(get_next_version(GitHistory)) =>
             /\ Len(Unwrap(workdir'.changelog)) > Len(Unwrap(workdir.changelog))
             /\ Unwrap(workdir'.changelog)[1]
                  = VersionHeading(Unwrap(get_next_version(GitHistory))))
       /\ (last'.outcome = "Committed" =>
             odb'[get_head'].tree.changelog = workdir'.changelog)]_vars

\* C19 witness: a release was committed whose changelog is a longer text
\* ending with the non-empty changelog of the commit before it.
C19_Witness ==
  /\ last = Outcome("release", "Committed")
  /\ Len(odb[get_head].parents) = 1
  /\ IsSome(odb[get_head].tree.changelog)
  /\ IsSome(odb[odb[get_head].parents[1]].tree.changelog)
  /\ Unwrap(odb[odb[get_head].parents[1]].tree.changelog) # <<>>
  /\ Len(Unwrap(odb[get_head].tree.changelog))
       > Len(Unwrap(odb[odb[get_head].parents[1]].tree.changelog))
  /\ IsSuffix(Unwrap(odb[odb[get_head].parents[1]].tree.changelog),
              Unwrap(odb[get_head].tree.changelog))

\* The first line of a message matches a configured pattern.
FirstLineMatches(message) ==
  \E r \in DEFAULT_PATTERNS.major \cup DEFAULT_PATTERNS.minor \cup DEFAULT_PATTERNS.patch :
     is_match(r, <<FirstLine(message)>>)

\* What the i-th item of a newest-first history contributes: a heading of
\* the newer version when its version differs from the item before it, and
\* an entry when its first line matches.
ExpectedAt(h, i) ==
  (IF i > 1 /\ ~SemVerEq(h[i].version, h[i - 1].version)
   THEN <<BumpVersion(h[i - 1].version)>> ELSE <<>>)
  \o (IF FirstLineMatches(h[i].message)
      THEN <<Entry(<<FirstLine(h[i].message)>>)>> ELSE <<>>)

RECURSIVE ExpectedFrom(_, _)
ExpectedFrom(h, i) == IF i > Len(h) THEN <<>> ELSE ExpectedAt(h, i) \o ExpectedFrom(h, i + 1)

\* The least version a history carries.
LeastVersion(h) ==
  CHOOSE v \in {h[i].version : i \in 1..Len(h)} :
    \A j \in 1..Len(h) : SemVerCmp(v, h[j].version) \in {"Less", "Equal"}

\* C20: with a pending release, full generation over the history yields
\* BumpVersion(next version), then the commits newest first, a heading of the
\* newer version where the version changes and an Entry of the first line
\* for each commit whose first line matches a pattern, and InitialVersion of
\* the least version last.
C20_FullGenerationEntries ==
  LET history == GitHistory
      next_version == get_next_version(history)
  IN IsSome(next_version) =>
       get_all_changelog_entries(history)
         = <<BumpVersion(Unwrap(next_version))>>
           \o ExpectedFrom(history, 1)
           \o <<InitialVersion(LeastVersion(history))>>

\* C20 witness: a release is pending on a history that holds an earlier
\* release and a commit matching no pattern; the entries hold a heading in
\* their middle.
C20_Witness ==
  /\ IsSome(get_next_version(GitHistory))
  /\ \E i \in 2..Len(GitHistory) : ~SemVerEq(GitHistory[i].version, GitHistory[i - 1].version)
  /\ \E i \in 1..Len(GitHistory) : ~FirstLineMatches(GitHistory[i].message)
  /\ \E i \in 2..(Len(get_all_changelog_entries(GitHistory)) - 1) :
        get_all_changelog_entries(GitHistory)[i].kind = "BumpVersion"

\* One Entry of the first line for each item whose first line matches a
\* configured pattern, in the order of the items.
RECURSIVE MatchingEntries(_)
MatchingEntries(items) ==
  IF items = <<>> THEN <<>>
  ELSE (IF FirstLineMatches(Head(items).message)
        THEN <<Entry(<<FirstLine(Head(items).message)>>)>> ELSE <<>>)
       \o MatchingEntries(Tail(items))

\* C21 (as claimed): when a changelog exists and a release is pending, the
\* incremental append emits BumpVersion(next version) followed by one Entry,
\* the first line, per window commit whose first line matches a pattern,
\* newest first, and nothing for the other window commits.
C21_AppendEmitsMatchingFirstLines ==
  LET history == GitHistory
      next_version == get_next_version(history)
  IN (rb.pc = "idle" /\ IsSome(workdir.changelog) /\ IsSome(next_version)) =>
       get_newest_changelog_items(history)
         = <<BumpVersion(Unwrap(next_version))>>
           \o MatchingEntries(iterate_to_last_version(history))

\* ------------------------------------------------- message classification
\* A second specification: the classifiers applied to the tip commit of a
\* repository whose one commit carries a message drawn from Messages, as
\* test_clog_commit_kind does with empty_commit and parse_commit.
MessageLines ==
  { <<>>,
    <<"random">>,
    <<"fix", ":", "sp", "1">>,
    <<"feat", ":", "sp", "1">>,
    <<"feat", "!", ":", "sp", "1">>,
    <<"sp", "feat", ":", "sp", "1">>,
    <<"feat", ":", "sp", "1", "!", ":">>,
    <<CLOG_TRAILER>>,
    <<"sp", CLOG_TRAILER>>,
    <<"fix", ":", "sp", CLOG_TRAILER>> }

\* Messages of one and of two lines, and a release message.
Messages ==
  {<<l>> : l \in MessageLines}
  \cup {<<l, m>> : l \in MessageLines, m \in MessageLines}
  \cup {make_clog_commit_message(version_0_1_0, SemVerNew(0, 1, 1, None, None))}

MessageInit ==
  /\ \E message \in Messages :
       odb = <<NewCommit(Tree(Some(Manifest(SemVerToString(version_0_1_0), 0)), None),
                         <<>>, message, TEST_USER, TEST_USER)>>
  /\ branch = 1
  /\ HEAD = Attached
  /\ index = odb[1].tree
  /\ workdir = [manifest |-> odb[1].tree.manifest, changelog |-> None, untracked |-> FALSE]
  /\ rb = Idle
  /\ last = Outcome("user", "Ok")

\* A classifier is called on the tip commit; the repository is not touched.
CallOnTip(op, outcome) ==
  /\ last.op = "user"
  /\ last' = Outcome(op, outcome)
  /\ UNCHANGED <<odb, branch, HEAD, index, workdir, rb>>

call_parse_commit_message ==
  CallOnTip("parse_commit_message", parse_commit_message(odb[get_head].message))

call_parse_commit_kind ==
  CallOnTip("parse_commit_kind", parse_commit_kind(odb[get_head].message))

call_is_clog_bump ==
  CallOnTip("is_clog_bump", is_clog_bump(odb[get_head].message))

MessageNext ==
  \/ call_parse_commit_message
  \/ call_parse_commit_kind
  \/ call_is_clog_bump

MessageSpec == MessageInit /\ [][MessageNext]_vars

\* Some line of the message, leading blanks trimmed, begins with the trailer.
LineBeginsWithTrailer(message) ==
  \E i \in 1..Len(message) :
     \E k \in 1..Len(message[i]) :
        /\ message[i][k] = CLOG_TRAILER
        /\ \A j \in 1..(k - 1) : message[i][j] = "sp"

\* C22 (as claimed): a history item is a release marker exactly when some
\* line of its message, trimmed at the start, begins with the trailer; the
\* trailer after other text on a line leaves the item Normal.
C22_MarkerIffLineBeginsWithTrailer ==
  last.op = "parse_commit_kind" =>
    (last.outcome = "ClogBump" <=> LineBeginsWithTrailer(odb[get_head].message))

\* The categories, of Major, Minor and Patch, that have a pattern matching a
\* line, and the first of them in that order, None when there is none.
LineCategories(l) ==
  {c \in {"Major", "Minor", "Patch"} :
     \E r \in (CASE c = "Major" -> DEFAULT_PATTERNS.major
                 [] c = "Minor" -> DEFAULT_PATTERNS.minor
                 [] OTHER -> DEFAULT_PATTERNS.patch) : is_match(r, <<l>>)}

FirstInOrder(cats) ==
  IF "Major" \in cats THEN "Major"
  ELSE IF "Minor" \in cats THEN "Minor"
  ELSE IF "Patch" \in cats THEN "Patch"
  ELSE "None"

IsBlank(l) == \A j \in 1..Len(l) : l[j] = "sp"

\* The first line of a message that holds text, from its first token that is
\* not a blank; empty when the message holds no text.
FirstTextLine(message) ==
  IF \A i \in 1..Len(message) : IsBlank(message[i]) THEN <<>>
  ELSE LET i == CHOOSE i \in 1..Len(message) :
                  ~IsBlank(message[i]) /\ \A k \in 1..(i - 1) : IsBlank(message[k])
           l == message[i]
           j == CHOOSE j \in 1..Len(l) : l[j] # "sp" /\ \A k \in 1..(j - 1) : l[k] = "sp"
       IN SubSeq(l, j, Len(l))

\* C23 (as claimed): the classification of a commit message is the first
\* category, in the order Major, Minor, Patch, with a pattern matching the
\* first line of the message, None when there is none.
C23_ClassifiesFirstLine ==
  last.op = "parse_commit_message" =>
    last.outcome = FirstInOrder(LineCategories(FirstLine(odb[get_head].message)))

\* C23 (amended): the classification is the first category, in the order
\* Major, Minor, Patch, with a pattern matching the first line that holds
\* text, leading blanks dropped, None when there is none; every message with
\* the same such line classifies alike, whatever its later lines hold.
C23_ClassifiesFirstTextLine ==
  last.op = "parse_commit_message" =>
    LET l == FirstTextLine(odb[get_head].message)
    IN /\ last.outcome = FirstInOrder(LineCategories(l))
       /\ \A other \in Messages :
            FirstTextLine(other) = l => parse_commit_message(other) = last.outcome

\* C23 witness: a message whose second line matches a Minor pattern and whose
\* first line matches none was classified None.
C23_Witness ==
  /\ last.op = "parse_commit_message"
  /\ odb[get_head].message = << <<"random">>, <<"feat", ":", "sp", "1">> >>
  /\ last.outcome = "None"

\* ------------------------------------------------------- the history walk
\* A third specification: GitHistory collected over a linear history of up
\* to MaxWalk commits whose snapshots lack the version file or hold one that
\* parses, does not parse, or is not UTF-8.
MaxWalk == 3
NOT_UTF8 == "\\xFF"
WalkManifests ==
  { None,
    Some(Manifest(SemVerToString(version_0_1_0), 0)),
    Some(Manifest(<<"0", ".", "1">>, 0)),
    Some(Manifest(<<NOT_UTF8>>, 0)) }

\* The i-th commit of a linear history with the given snapshots.
WalkCommit(manifests, i) ==
  NewCommit(Tree(manifests[i], None), IF i = 1 THEN <<>> ELSE <<i - 1>>,
            NONE.msg, TEST_USER, TEST_USER)

WalkInit ==
  /\ \E n \in 1..MaxWalk : \E manifests \in [1..n -> WalkManifests] :
       odb = [i \in 1..n |-> WalkCommit(manifests, i)]
  /\ branch = Len(odb)
  /\ HEAD = Attached
  /\ index = odb[Len(odb)].tree
  /\ workdir = [manifest |-> index.manifest, changelog |-> None, untracked |-> FALSE]
  /\ rb = Idle
  /\ last = Outcome("user", "Ok")

\* GitHistory::new(project, repo).collect(): the ids of the items, or a panic.
collect_history ==
  /\ last.op = "user"
  /\ last' = Outcome("GitHistory",
                     IF GitHistory_panics THEN [kind |-> "Panic", ids |-> <<>>]
                     ELSE [kind |-> "Ok", ids |-> Ids(GitHistory)])
  /\ UNCHANGED <<odb, branch, HEAD, index, workdir, rb>>

WalkNext == collect_history

WalkSpec == WalkInit /\ [][WalkNext]_vars

\* The snapshot of a commit holds a version file that parses as SemVer.
HasVersion(oid) ==
  /\ odb[oid].tree.manifest # None
  /\ SemVerParse(odb[oid].tree.manifest[1].version) # None

\* C24 (as claimed): the walk never aborts, and it yields, newest first, the
\* commits whose snapshot holds a version file that parses; the others are
\* left out.
C24_UnreadableCommitsAreSkipped ==
  last.op = "GitHistory" =>
    /\ last.outcome.kind = "Ok"
    /\ last.outcome.ids = Descending({oid \in 1..Len(odb) : HasVersion(oid)})

\* ------------------------------------------------------------ merged work
\* A fourth specification: commits, merged feature branches and release
\* creation on a repository, without rollback.
MergeMessage == << <<"merge", ":", "sp", "feature", "sp", "branch">> >>

\* test_support make_branch and merge_commits, as branches_repo uses them: a
\* branch is made from HEAD, the user commits on it, main is checked out
\* again and a merge commit is created on main, with the tree of its first
\* parent, main's tip, and with the tip of the branch as second parent.
merge_branch(case) ==
  /\ rb.pc = "idle"
  /\ HEAD.attached
  /\ is_repo_ready
  /\ Len(odb) + 2 <= MaxObjects
  /\ LET feature_commit == NewCommit(index, <<get_head>>, case.msg, TEST_USER, TEST_USER)
         merge == NewCommit(odb[get_head].tree, <<get_head, Len(odb) + 1>>,
                            MergeMessage, TEST_USER, TEST_USER)
     IN /\ odb' = odb \o <<feature_commit, merge>>
        /\ branch' = Len(odb) + 2
  /\ UNCHANGED <<HEAD, index, workdir, rb>>
  /\ last' = Outcome("user", "Ok")

MergeNext ==
  \/ \E version \in {version_0_1_0, version_1_0_0} : pyproject_init_commit(version)
  \/ \E case \in CommitCases : empty_commit(case)
  \/ \E case \in CommitCases : merge_branch(case)
  \/ make_bump_commit

MergeSpec == Init /\ [][MergeNext]_vars

\* The release boundary of a tip: going back along first parents, the newest
\* commit whose tracked version differs from its first parent's, or the root.
RECURSIVE ReleaseBoundary(_)
ReleaseBoundary(c) ==
  IF odb[c].parents = <<>> THEN c
  ELSE IF ~SemVerEq(TrackedVersion(c), TrackedVersion(odb[c].parents[1])) THEN c
  ELSE ReleaseBoundary(odb[c].parents[1])

\* The commits reachable from the tip and not from the release boundary.
SinceBoundary(tip) == Ancestors(tip) \ Ancestors(ReleaseBoundary(tip))

\* Those of them reachable only through the second parent of a merge.
OnlyThroughMerge(tip) == SinceBoundary(tip) \ FirstParents(tip)

\* C25: with a merge since the release boundary, release creation bumps the
\* version by the greatest category over all commits reachable from the tip
\* and not from the boundary, those reachable only through a merge's second
\* parent included, and releases nothing when that category is None.
C25_MergedCommitsCount ==
  [][(ReleaseEnded /\ OnlyThroughMerge(get_head) # {}) =>
       Yields(TrackedVersion(get_head), MaxCategory(SinceBoundary(get_head)))]_vars

\* C25 witness: a release was committed on a merge commit, and the category
\* it bumped by is found only on a commit reachable through the merge's
\* second parent.
C25_Witness ==
  /\ last = Outcome("release", "Committed")
  /\ LET before == odb[get_head].parents[1]
     IN /\ Len(odb[before].parents) = 2
        /\ MaxCategory(SinceBoundary(before) \cap FirstParents(before)) = "None"
        /\ MaxCategory(OnlyThroughMerge(before)) = "Minor"
        /\ SemVerEq(TrackedVersion(get_head), bump(TrackedVersion(before), "Minor"))

\* C26 (as claimed): release creation on a clean repository without commits
\* is accepted, it ends Committed or NoOp, and a release it commits has no
\* parent.
C26_EmptyRepositoryAccepted ==
  [][(ReleaseStep /\ odb = <<>> /\ ~PendingChanges) =>
       /\ last'.outcome \in {"Committed", "NoOp"}
       /\ (last'.outcome = "Committed" => odb'[get_head'].parents = <<>>)]_vars

\* C26 (amended): release creation on a repository without commits fails
\* with NoCommits and mutates nothing, and every release commit has a parent.
C26_EmptyRepositoryRejected ==
  [][ReleaseStep =>
       /\ (odb = <<>> =>
             /\ last'.outcome = "NoCommits"
             /\ UNCHANGED <<odb, branch, HEAD, index, workdir>>)
       /\ (last'.outcome = "Committed" => Len(odb'[get_head'].parents) = 1)]_vars

\* C26 witness: a release creation was refused on a clean, empty repository.
C26_Witness ==
  /\ last = Outcome("release", "NoCommits")
  /\ odb = <<>>
  /\ ~PendingChanges

\* ------------------------------------------------------ SemVer operations
\* The SemVer operations on parsed version texts: two texts are parsed
\* (SemVer::parse(..).unwrap()) and compared, tested for equality, or the
\* first is bumped.  The repository is empty and is not touched.

\* The precedence chain of the SemVer tests, lowest first.
PrecedenceChain ==
  << <<"1", ".", "0", ".", "0", "-", "alpha">>,
     <<"1", ".", "0", ".", "0", "-", "alpha", ".", "1">>,
     <<"1", ".", "0", ".", "0", "-", "alpha", ".", "beta">>,
     <<"1", ".", "0", ".", "0", "-", "beta">>,
     <<"1", ".", "0", ".", "0", "-", "beta", ".", "2">>,
     <<"1", ".", "0", ".", "0", "-", "beta", ".", "11">>,
     <<"1", ".", "0", ".", "0", "-", "rc", ".", "1">>,
     <<"1", ".", "0", ".", "0">>,
     <<"1", ".", "0", ".", "1">>,
     <<"1", ".", "1", ".", "0">>,
     <<"1", ".", "1", ".", "1">>,
     <<"2", ".", "0", ".", "0">> >>

\* Version texts: the chain, the texts of the equality and bump tests,
\* pre-stable versions, and prereleases whose digits exceed u64::MAX.
VersionTexts ==
  {PrecedenceChain[i] : i \in 1..Len(PrecedenceChain)}
  \cup { <<"1", ".", "1", ".", "1", "+", "linux">>,
         <<"1", ".", "1", ".", "1", "-", "rc">>,
         <<"1", ".", "0", ".", "0", "+", "build", ".", "1">>,
         <<"1", ".", "0", ".", "0", "+", "build", ".", "2">>,
         <<"1", ".", "0", ".", "0", "-", "rc", ".", "1", "+", "build", ".", "1">>,
         <<"0", ".", "0", ".", "0">>,
         <<"0", ".", "0", ".", "1">>,
         <<"0", ".", "1", ".", "0">>,
         <<"0", ".", "2", ".", "3", "-", "rc", ".", "1", "+", "linux">>,
         <<"1", ".", "0", ".", "0", "-", Overflowing[1]>>,
         <<"1", ".", "0", ".", "0", "-", Overflowing[2]>> }

SemVerInit ==
  /\ odb = <<>>
  /\ branch = 0
  /\ HEAD = Attached
  /\ index = EmptyTree
  /\ workdir = [manifest |-> None, changelog |-> None, untracked |-> FALSE]
  /\ rb = Idle
  /\ \E s \in VersionTexts, t \in VersionTexts :
       last = Outcome("parse", [a |-> Unwrap(SemVerParse(s)), b |-> Unwrap(SemVerParse(t))])

\* An operation is called on the parsed versions; op names it, result is
\* what it returned.
CallOnVersions(op, arg, result) ==
  /\ last.op = "parse"
  /\ last' = Outcome(op, [a |-> last.outcome.a, b |-> last.outcome.b,
                          arg |-> arg, result |-> result])
  /\ UNCHANGED <<odb, branch, HEAD, index, workdir, rb>>

\* a.cmp(&b)
call_cmp == CallOnVersions("cmp", "-", SemVerCmp(last.outcome.a, last.outcome.b))

\* a == b
call_eq == CallOnVersions("eq", "-", SemVerEq(last.outcome.a, last.outcome.b))

\* a.bump(category)
call_bump(category) == CallOnVersions("bump", category, bump(last.outcome.a, category))

\* SemVer::parse(&a.to_string())
call_round_trip ==
  CallOnVersions("round_trip", "-", SemVerParse(SemVerToString(last.outcome.a)))

SemVerNext ==
  \/ call_cmp
  \/ call_eq
  \/ \E category \in SemVerBump : call_bump(category)
  \/ call_round_trip

SemVerSpec == SemVerInit /\ [][SemVerNext]_vars

\* SemVer 2.0.0 precedence, stated position by position.  An identifier of
\* digits only is numeric, whatever its size.
AllDigits(x) == x \in Numerals \/ \E i \in 1..Len(Overflowing) : Overflowing[i] = x
\* Position of a numeric identifier in numeric order.
DigitsRank(x) ==
  IF x \in Numerals THEN NumVal(x)
  ELSE MaxNum + (CHOOSE i \in 1..Len(Overflowing) : Overflowing[i] = x)
\* Position of a non-numeric identifier in lexical order.
LexRank(x) == CHOOSE i \in 1..Len(AlphaIds) : AlphaIds[i] = x

IdentifierBelow(x, y) ==
  \/ AllDigits(x) /\ AllDigits(y) /\ DigitsRank(x) < DigitsRank(y)
  \/ AllDigits(x) /\ ~AllDigits(y)
  \/ ~AllDigits(x) /\ ~AllDigits(y) /\ LexRank(x) < LexRank(y)

\* p is below q at the first position where they differ, or is a proper
\* prefix of q.
PrereleaseBelow(p, q) ==
  \/ \E i \in 1..Len(p) :
        /\ i <= Len(q)
        /\ SubSeq(p, 1, i - 1) = SubSeq(q, 1, i - 1)
        /\ IdentifierBelow(p[i], q[i])
  \/ Len(p) < Len(q) /\ SubSeq(q, 1, Len(p)) = p

VersionBelow(a, b) ==
  \/ a.major < b.major
  \/ a.major = b.major /\ a.minor < b.minor
  \/ a.major = b.major /\ a.minor = b.minor /\ a.patch < b.patch
  \/ /\ a.major = b.major /\ a.minor = b.minor /\ a.patch = b.patch
     /\ \/ IsSome(a.prerelease) /\ ~IsSome(b.prerelease)
        \/ /\ IsSome(a.prerelease) /\ IsSome(b.prerelease)
           /\ PrereleaseBelow(Unwrap(a.prerelease), Unwrap(b.prerelease))

Precedence(a, b) ==
  IF VersionBelow(a, b) THEN "Less"
  ELSE IF VersionBelow(b, a) THEN "Greater"
  ELSE "Equal"

\* C27 (as claimed): comparing two versions gives their precedence: major,
\* minor, patch numerically, then a version without prerelease above one
\* with, then the prereleases identifier by identifier (numeric identifiers
\* numerically, numeric below non-numeric, non-numeric lexically, a proper
\* prefix below the longer); the versions of the chain compare in chain order.
C27_OrderingIsPrecedence ==
  last.op = "cmp" =>
    /\ last.outcome.result = Precedence(last.outcome.a, last.outcome.b)
    /\ \A i \in 1..Len(PrecedenceChain), j \in 1..Len(PrecedenceChain) :
         (/\ i < j
          /\ last.outcome.a = Unwrap(SemVerParse(PrecedenceChain[i]))
          /\ last.outcome.b = Unwrap(SemVerParse(PrecedenceChain[j])))
         => last.outcome.result = "Less"

\* C28: two versions are equal exactly when their major, minor, patch and
\* prerelease are equal, whatever their build metadata: 1.1.1+linux equals
\* 1.1.1, 1.0.0+build.1 equals 1.0.0+build.2, 1.1.1-rc differs from 1.1.1.
C28_EqualityIgnoresBuild ==
  last.op = "eq" =>
    LET a == last.outcome.a
        b == last.outcome.b
        Parsed(text) == Unwrap(SemVerParse(text))
        Pair(s, t) == a = Parsed(s) /\ b = Parsed(t)
    IN /\ last.outcome.result <=>
            <<a.major, a.minor, a.patch, a.prerelease>>
              = <<b.major, b.minor, b.patch, b.prerelease>>
       /\ Pair(<<"1", ".", "1", ".", "1", "+", "linux">>, <<"1", ".", "1", ".", "1">>)
            => last.outcome.result
       /\ Pair(<<"1", ".", "0", ".", "0", "+", "build", ".", "1">>,
               <<"1", ".", "0", ".", "0", "+", "build", ".", "2">>)
            => last.outcome.result
       /\ Pair(<<"1", ".", "1", ".", "1", "-", "rc">>, <<"1", ".", "1", ".", "1">>)
            => ~last.outcome.result

\* Two versions with different build metadata were found equal.
C28_Witness ==
  /\ last.op = "eq"
  /\ last.outcome.a.build_meta = Some(<<"build", "1">>)
  /\ last.outcome.b.build_meta = Some(<<"build", "2">>)
  /\ last.outcome.result

\* C29: on a version with major 0 a Major bump returns what a Minor bump
\* returns: major stays 0, minor is one more, patch is 0.
C29_PreStableMajorIsMinor ==
  (last.op = "bump" /\ last.outcome.arg = "Major" /\ last.outcome.a.major = 0) =>
    /\ last.outcome.result = bump(last.outcome.a, "Minor")
    /\ last.outcome.result.major = 0
    /\ last.outcome.result.minor = last.outcome.a.minor + 1
    /\ last.outcome.result.patch = 0

\* 0.2.3-rc.1+linux was bumped Major and became 0.3.0.
C29_Witness ==
  /\ last.op = "bump"
  /\ last.outcome.arg = "Major"
  /\ last.outcome.a = SemVerNew(0, 2, 3, Some(<<"rc", "1">>), Some(<<"linux">>))
  /\ last.outcome.result = SemVerNew(0, 3, 0, None, None)

\* C30: a None bump returns the version itself: major, minor, patch,
\* prerelease and build metadata unchanged.
C30_NoneBumpIsIdentity ==
  (last.op = "bump" /\ last.outcome.arg = "None") =>
    /\ last.outcome.result.major = last.outcome.a.major
    /\ last.outcome.result.minor = last.outcome.a.minor
    /\ last.outcome.result.patch = last.outcome.a.patch
    /\ last.outcome.result.prerelease = last.outcome.a.prerelease
    /\ last.outcome.result.build_meta = last.outcome.a.build_meta

\* A version with a prerelease and build metadata was bumped None and came
\* back with both.
C30_Witness ==
  /\ last.op = "bump"
  /\ last.outcome.arg = "None"
  /\ IsSome(last.outcome.a.prerelease)
  /\ IsSome(last.outcome.a.build_meta)
  /\ last.outcome.result = last.outcome.a

\* C31: a Major bump of a version with major >= 1 gives (major+1).0.0, a
\* Minor bump gives major.(minor+1).0, a Patch bump major.minor.(patch+1),
\* and the result of every bump other than None has neither prerelease nor
\* build metadata.
C31_BumpIncrementsAndClears ==
  (last.op = "bump" /\ last.outcome.arg # "None") =>
    LET v == last.outcome.a
        result == last.outcome.result
    IN /\ (last.outcome.arg = "Major" /\ v.major >= 1) =>
            <<result.major, result.minor, result.patch>> = <<v.major + 1, 0, 0>>
       /\ last.outcome.arg = "Minor" =>
            <<result.major, result.minor, result.patch>> = <<v.major, v.minor + 1, 0>>
       /\ last.outcome.arg = "Patch" =>
            <<result.major, result.minor, result.patch>> = <<v.major, v.minor, v.patch + 1>>
       /\ result.prerelease = None
       /\ result.build_meta = None

\* 0.2.3-rc.1+linux was bumped Minor and became 0.3.0, without prerelease and
\* build metadata.
C31_Witness ==
  /\ last.op = "bump"
  /\ last.outcome.arg = "Minor"
  /\ last.outcome.a = SemVerNew(0, 2, 3, Some(<<"rc", "1">>), Some(<<"linux">>))
  /\ last.outcome.result = SemVerNew(0, 3, 0, None, None)

\* The four combinations of prerelease and build metadata of a version.
Combination(v) == <<IsSome(v.prerelease), IsSome(v.build_meta)>>

\* C32: a parsed version, formatted and parsed again, is the same version in
\* all five fields, with and without prerelease, with and without build
\* metadata.
C32_FormatThenParseIsIdentity ==
  last.op = "round_trip" => last.outcome.result = Some(last.outcome.a)

\* A version with prerelease and build metadata came back from the round
\* trip with both.
C32_Witness ==
  /\ last.op = "round_trip"
  /\ Combination(last.outcome.a) = <<TRUE, TRUE>>
  /\ IsSome(last.outcome.result)
  /\ Combination(Unwrap(last.outcome.result)) = <<TRUE, TRUE>>
  /\ Unwrap(last.outcome.result).build_meta = last.outcome.a.build_meta

\* ------------------------------------------------------ the release boundary
\* A sixth specification: the release-boundary search and the bump
\* calculation of lib.rs over a linear history of up to MaxHistory commits.
\* A snapshot lacks the version file or holds 0.1.0 or one of two texts of
\* 0.2.0; the tip holds the file, the repository is clean, and the project is
\* the one detected in the working directory.
MaxHistory == 4
BoundaryManifests ==
  { None,
    Some(Manifest(SemVerToString(version_0_1_0), 0)),
    Some(Manifest(SemVerToString(SemVerNew(0, 2, 0, None, None)), 0)),
    Some(Manifest(SemVerToString(SemVerNew(0, 2, 0, None, None)), 1)) }
BoundaryMessages ==
  { NONE.msg, PATCH.msg, MINOR.msg,
    make_clog_commit_message(version_0_1_0, SemVerNew(0, 2, 0, None, None)) }

BoundaryInit ==
  /\ \E n \in 1..MaxHistory :
       \E manifests \in [1..n -> BoundaryManifests], messages \in [1..n -> BoundaryMessages] :
          /\ IsSome(manifests[n])
          /\ odb = [i \in 1..n |->
                      NewCommit(Tree(manifests[i], None), IF i = 1 THEN <<>> ELSE <<i - 1>>,
                                messages[i], TEST_USER, TEST_USER)]
  /\ branch = Len(odb)
  /\ HEAD = Attached
  /\ index = odb[Len(odb)].tree
  /\ workdir = [manifest |-> index.manifest, changelog |-> None, untracked |-> FALSE]
  /\ rb = Idle
  /\ last = Outcome("user", "Ok")

\* get_latest_release(repo, project) for the detected project
call_get_latest_release ==
  /\ last.op = "user"
  /\ last' = Outcome("get_latest_release", get_latest_release(DiskVersion(workdir)))
  /\ UNCHANGED <<odb, branch, HEAD, index, workdir, rb>>

\* calculate_bump(repo, project, config) for the detected project
call_calculate_bump ==
  /\ last.op = "user"
  /\ last' = Outcome("calculate_bump", calculate_bump(DiskVersion(workdir)))
  /\ UNCHANGED <<odb, branch, HEAD, index, workdir, rb>>

BoundaryNext ==
  \/ call_get_latest_release
  \/ call_calculate_bump

BoundarySpec == BoundaryInit /\ [][BoundaryNext]_vars

\* The version file of a commit differs from that of its first parent: in
\* content, or because one of the two snapshots lacks it; the root commit
\* counts when it holds the file.
DiffersFromParent(c) ==
  IF odb[c].parents = <<>> THEN IsSome(odb[c].tree.manifest)
  ELSE odb[c].tree.manifest # odb[odb[c].parents[1]].tree.manifest

\* The version file is missing in the first parent of a commit.
MissingInParent(c) ==
  /\ odb[c].parents # <<>>
  /\ odb[odb[c].parents[1]].tree.manifest = None

\* C33 (as claimed): the boundary search does not fail; it returns the most
\* recent commit whose version file differs from its first parent's, and when
\* that cannot be answered, the version file being missing in the parent or
\* no commit differing, it returns what the search for the most recent
\* release marker returns.
C33_BoundaryOrMarkerFallback ==
  last.op = "get_latest_release" =>
    LET differing == {c \in Ancestors(get_head) : DiffersFromParent(c)}
    IN /\ last.outcome.kind # "Err"
       /\ IF differing # {} /\ ~MissingInParent(SetMax(differing))
          THEN last.outcome = ResSome(SetMax(differing))
          ELSE last.outcome = get_prev_clog_bump

\* Every commit back to the root holds the version file with the version of
\* the tip.
NeverChanged(tip) ==
  \A c \in Ancestors(tip) :
     /\ IsSome(odb[c].tree.manifest)
     /\ SemVerEq(TrackedVersion(c), TrackedVersion(tip))

\* C34 (as claimed): when the tracked version never changed since the root
\* commit, the bump is the greatest category among all commits, the root
\* commit included.
C34_RootCommitCounts ==
  (last.op = "calculate_bump" /\ NeverChanged(get_head)) =>
    /\ last.outcome.ok
    /\ last.outcome.bump = MaxCategory(Ancestors(get_head))

\* The commits at which the tracked version increased: the parent holds a
\* lower version.
VersionIncreasedAt(c) ==
  /\ odb[c].parents # <<>>
  /\ IsSome(odb[c].tree.manifest)
  /\ IsSome(odb[odb[c].parents[1]].tree.manifest)
  /\ SemVerCmp(TrackedVersion(odb[c].parents[1]), TrackedVersion(c)) = "Less"

Increases(tip) == {c \in Ancestors(tip) : VersionIncreasedAt(c)}
\* The commits made after the last increase.
SinceIncrease(tip) == {c \in Ancestors(tip) : c > SetMax(Increases(tip))}

\* A commit after the last increase changed the content of the version file,
\* and every commit after the last increase holds the version of the increase.
ContentChangedOnly(tip) ==
  /\ Increases(tip) # {}
  /\ \A c \in SinceIncrease(tip) :
        /\ IsSome(odb[c].tree.manifest)
        /\ SemVerEq(TrackedVersion(c), TrackedVersion(SetMax(Increases(tip))))
  /\ \E c \in SinceIncrease(tip) : DiffersFromParent(c)

\* C39: a commit that changes the content of the version file and not the
\* tracked version is no boundary: the bump is the greatest category among
\* the commits made after the last commit at which the version increased,
\* those before the content change included.
C39_ContentChangeIsNoBoundary ==
  (last.op = "calculate_bump" /\ ContentChangedOnly(get_head)) =>
    /\ last.outcome.ok
    /\ last.outcome.bump = MaxCategory(SinceIncrease(get_head))

\* The bump is Minor because of a commit made before the commit that changed
\* the content of the version file.
C39_Witness ==
  /\ last.op = "calculate_bump"
  /\ ContentChangedOnly(get_head)
  /\ last.outcome.bump = "Minor"
  /\ \E c \in SinceIncrease(get_head) :
        /\ DiffersFromParent(c)
        /\ \A x \in SinceIncrease(get_head) : Category(x) = "Minor" => x < c

\* C35: when the planner yields no next version, the history being empty or
\* no commit of the window classifying above None, full changelog generation
\* produces no entry at all, whatever commits the history holds.
C35_NoNextVersionNoEntries ==
  LET history == GitHistory
  IN ~IsSome(get_next_version(history)) => get_all_changelog_entries(history) = <<>>

\* C35 witness: no release is pending on a history that holds an earlier
\* release and a commit whose first line matches a pattern; there is no entry.
C35_Witness ==
  /\ rb.pc = "idle"
  /\ ~IsSome(get_next_version(GitHistory))
  /\ \E i \in 2..Len(GitHistory) : ~SemVerEq(GitHistory[i].version, GitHistory[i - 1].version)
  /\ \E i \in 1..Len(GitHistory) : FirstLineMatches(GitHistory[i].message)
  /\ get_all_changelog_entries(GitHistory) = <<>>

\* C36 (as claimed): after a successful rollback the tracked version of the
\* new tip is the tracked version of the base, the parent of the removed
\* release commit, also when commits made after the release were replayed.
C36_TipVersionIsBaseVersion ==
  [][RollbackDone =>
       LET tip == get_head'
       IN /\ odb' = odb
          /\ SemVerEq(TrackedVersion(tip), TrackedVersion(RollbackBase))]_vars

\* C37: a rollback started right after a release creation that ended
\* Committed, on the branch, detaches HEAD at the commit that was the tip
\* before the release, with the release commit alone to remove; and a
\* rollback that removes the tip alone ends with the branch on the tip's
\* parent, HEAD attached to the branch, and no commit added.
C37_ReleaseThenRollbackRestoresTip ==
  [][/\ (/\ RollbackStart
         /\ last = Outcome("release", "Committed")
         /\ HEAD.attached) =>
           /\ last'.outcome = "Detached"
           /\ rb'.commits = <<branch>>
           /\ rb'.branch_ref = BRANCH_REF
           /\ HEAD' = Detached(odb[branch].parents[1])
     /\ (/\ RollbackDone
         /\ rb.branch_ref = BRANCH_REF
         /\ rb.commits = <<branch>>) =>
           /\ branch' = odb[branch].parents[1]
           /\ HEAD' = Attached
           /\ odb' = odb]_vars

\* C37 witness: a rollback has ended on the branch; the newest commit is the
\* release commit made by clog, which raised the version of its parent, and
\* the branch is on that parent again.
C37_Witness ==
  /\ last = Outcome("rollback", "Ok")
  /\ HEAD = Attached
  /\ odb[Len(odb)].committer = CONFIG_NAME
  /\ odb[Len(odb)].parents = <<branch>>
  /\ SemVerCmp(TrackedVersion(branch), TrackedVersion(Len(odb))) = "Less"
  /\ odb[Len(odb)].message
       = make_clog_commit_message(TrackedVersion(branch), TrackedVersion(Len(odb)))

\* The tracked version of a commit among the given objects.
TrackedVersionIn(objects, oid) ==
  Unwrap(parse_version_file(Unwrap(objects[oid].tree.manifest)))

\* C38: over ordinary commits, merges and release creations the tracked
\* version of the tip never decreases, and it increases exactly in the steps
\* in which a release creation ends Committed.
C38_TipVersionMonotonic ==
  [][get_head # 0 =>
       LET order == SemVerCmp(TrackedVersionIn(odb, get_head), TrackedVersionIn(odb', get_head'))
       IN /\ order \in {"Less", "Equal"}
          /\ order = "Less" <=> last' = Outcome("release", "Committed")]_vars

\* C38 witness: a release was committed on an ordinary commit that had kept
\* the version of its parent, and raised it.
C38_Witness ==
  /\ last = Outcome("release", "Committed")
  /\ Len(odb[get_head].parents) = 1
  /\ LET parent == odb[get_head].parents[1]
     IN /\ odb[parent].committer = TEST_USER
        /\ Len(odb[parent].parents) = 1
        /\ SemVerEq(TrackedVersion(odb[parent].parents[1]), TrackedVersion(parent))
        /\ SemVerCmp(TrackedVersion(parent), TrackedVersion(get_head)) = "Less"

\* ------------------------------------------------- constructed versions
\* A seventh specification: equality and ordering of versions built with
\* SemVer::new, whose prerelease is any string, three at a time.
ConstructedPrereleases ==
  { None, Some(<<"1">>), Some(<<ZERO_PADDED>>), Some(<<"alpha">>),
    Some(<<"alpha", "1">>), Some(<<Overflowing[1]>>) }
ConstructedVersions ==
  {SemVerNew(1, 0, 0, prerelease, build_meta) :
     prerelease \in ConstructedPrereleases, build_meta \in {None, Some(<<"linux">>)}}
  \cup {SemVerNew(1, 0, 1, None, None)}

ConstructedInit ==
  /\ odb = <<>>
  /\ branch = 0
  /\ HEAD = Attached
  /\ index = EmptyTree
  /\ workdir = [manifest |-> None, changelog |-> None, untracked |-> FALSE]
  /\ rb = Idle
  /\ \E a \in ConstructedVersions, b \in ConstructedVersions, c \in ConstructedVersions :
       last = Outcome("new", [a |-> a, b |-> b, c |-> c])

\* a.cmp(&b), b.cmp(&a) and a == b
compare_pair ==
  /\ last.op = "new"
  /\ last' = Outcome("compare_pair",
                     [a |-> last.outcome.a, b |-> last.outcome.b,
                      ab |-> SemVerCmp(last.outcome.a, last.outcome.b),
                      ba |-> SemVerCmp(last.outcome.b, last.outcome.a),
                      eq |-> SemVerEq(last.outcome.a, last.outcome.b)])
  /\ UNCHANGED <<odb, branch, HEAD, index, workdir, rb>>

\* a.cmp(&b), b.cmp(&c) and a.cmp(&c)
compare_chain ==
  /\ last.op = "new"
  /\ last' = Outcome("compare_chain",
                     [a |-> last.outcome.a, b |-> last.outcome.b, c |-> last.outcome.c,
                      ab |-> SemVerCmp(last.outcome.a, last.outcome.b),
                      bc |-> SemVerCmp(last.outcome.b, last.outcome.c),
                      ac |-> SemVerCmp(last.outcome.a, last.outcome.c)])
  /\ UNCHANGED <<odb, branch, HEAD, index, workdir, rb>>

ConstructedNext ==
  \/ compare_pair
  \/ compare_chain

ConstructedSpec == ConstructedInit /\ [][ConstructedNext]_vars

\* C40 (as claimed): for versions built with SemVer::new, the comparison is
\* Equal exactly when the versions are equal, the comparison of b with a is
\* the reverse of that of a with b, and the order is transitive.
C40_OrderAgreesWithEquality ==
  /\ last.op = "compare_pair" =>
       /\ last.outcome.ab = "Equal" <=> last.outcome.eq
       /\ last.outcome.ab = "Less" <=> last.outcome.ba = "Greater"
       /\ last.outcome.ab = "Greater" <=> last.outcome.ba = "Less"
  /\ last.op = "compare_chain" =>
       /\ (last.outcome.ab # "Greater" /\ last.outcome.bc # "Greater")
            => last.outcome.ac # "Greater"
       /\ (last.outcome.ab = "Less" /\ last.outcome.bc # "Greater")
            => last.outcome.ac = "Less"

====
